---- MODULE Spec2Model ----
(***************************************************************************)
(* State-machine model of the MintGate NFT contract (mg-nft), the MintGate *)
(* market contract (mg-market) and the cross-contract calls between them.  *)
(*                                                                         *)
(* Every entry point runs to completion as one atomic step.  A call that   *)
(* panics is reverted by the host and leaves no trace in the state: the    *)
(* operator <call>_status gives the panic a call raises in a state, or     *)
(* "ok", and the action of the call is enabled when it is "ok".            *)
(* Cross-contract calls are receipts kept until the host executes them: a  *)
(* receipt that panics is consumed all the same.  The notifications sent   *)
(* to one account are executed in the order they were sent.                *)
(***************************************************************************)
EXTENDS Integers, Sequences, FiniteSets, Bags, TLC

VARIABLES
    \* ---- NftContract (mg-nft/src/lib.rs) ----
    collectibles,            \* GateId -> Collectible (partial)
    collectibles_by_creator, \* AccountId -> set of GateId
    tokens,                  \* TokenId -> Token (partial)
    tokens_by_owner,         \* AccountId -> set of TokenId
    admin_id,
    min_royalty,
    max_royalty,
    mintgate_fee,
    mintgate_fee_account_id,
    \* ---- MarketContract (mg-market/src/lib.rs) ----
    tokens_for_sale,         \* TokenKey -> TokenForSale (partial)
    tokens_by_nft_id,        \* AccountId -> set of TokenId
    tokens_by_gate_id,       \* GateId -> set of TokenKey
    tokens_by_owner_id,      \* AccountId -> set of TokenKey
    tokens_by_creator_id,    \* AccountId -> set of TokenKey
    \* ---- host: receipts in flight and native balances ----
    notifications,           \* queue of nft_on_approve / nft_on_revoke receipts
    transfers,               \* bag of nft_transfer_payout receipts
    callbacks,               \* bag of make_payouts receipts with their promise result
    balance,                 \* AccountId -> net native currency received
    payments,                \* bag of native transfer receipts of make_payouts
    \* ---- history of the run ----
    issued,                  \* token ids returned by claim_token, in order
    supplied,                \* GateId -> supply the collectible was created with
    claims,                  \* GateId -> successful claims since it was created
    sold,                    \* TokenKey -> admitted buy_token calls
    bought,                  \* TokenKey -> bought, and not listed again since
    settled,                 \* TokenKey -> executed make_payouts callbacks
    failed,                  \* TokenKey -> those of them run on a failed promise
    e2e,                     \* position of the run in the end-to-end scenario
    calls                    \* calls made by accounts so far

nft_vars == <<collectibles, collectibles_by_creator, tokens, tokens_by_owner,
              admin_id, min_royalty, max_royalty, mintgate_fee,
              mintgate_fee_account_id>>
config_vars == <<admin_id, min_royalty, max_royalty, mintgate_fee,
                 mintgate_fee_account_id>>
market_vars == <<tokens_for_sale, tokens_by_nft_id, tokens_by_gate_id,
                 tokens_by_owner_id, tokens_by_creator_id>>
host_vars == <<notifications, transfers, callbacks, balance, payments>>
hist_vars == <<issued, supplied, claims, sold, bought, settled, failed>>
vars == <<nft_vars, market_vars, host_vars, hist_vars, e2e, calls>>

----------------------------------------------------------------------------
(* Bounds of the model *)

MaxCalls == 6           \* accounts make at most this many successful calls
MaxRoyaltyCalls == 3    \* the same, in the runs that vary the deployment
MaxTokens == 2          \* claim_token is explored while fewer tokens are stored
MaxBalance == 40        \* largest balance passed to the nft_payout view
MaxBatchCalls == 4      \* calls of the runs that approve in batches
MaxBatch == 2           \* largest number of items in a batch
MaxSaleCalls == 7       \* calls of the runs that follow sales to their end
MaxMarketCalls == 4     \* calls of the runs that call the market directly
MaxForeignCalls == 3    \* calls of the runs with a registry of unknown code
MaxDen == 40000         \* largest denominator of the fractions compared
MaxFraction == 3        \* largest num and den of the fractions given to check

NONE == "none"

NFT == "nft"
MARKET == "market"
MINTGATE == "mintgate"
ADMIN == "admin"
Users == {"alice", "bob"}
Accounts == Users \cup {MINTGATE, MARKET, NFT, ADMIN}
Gates == {"g1", "g2"}
TokenIds == 0..(MaxTokens - 1)
Approvables == {MARKET, "bob"}
Supplies == {0, 1, 10}
Prices == {5, 2000}
Deposits == {7, 2000}
Balances == 0..MaxBalance \cup {2000}

Frac(n, d) == [num |-> n, den |-> d]
Royalties ==
    {Frac(15, 100), Frac(0, 100), Frac(1, 2), Frac(2, 3), Frac(974, 1000),
     Frac(975, 1000), Frac(2, 1), Frac(1, 0)}
MinRoyalties == {Frac(0, 100), Frac(5, 100)}
MaxRoyalties == {Frac(30, 100), Frac(1, 1)}
Fees == {Frac(25, 1000), Frac(1, 3)}
FeeAccounts == {MINTGATE, "bob"}

TokenKey(nft_id, token_id) == <<nft_id, token_id>>

EmptyMap == [x \in {} |-> 0]

----------------------------------------------------------------------------
(* Fraction (mg-core/src/lib.rs, mod fraction) *)

\* Fraction::check without its test of num against den
check_denominator_only(f) ==
    IF f.den = 0 THEN "ZeroDenominatorFraction" ELSE "ok"

\* Fraction::new (fraction.rs): the assertion that fails, or "ok"
new_status(num, den) ==
    IF den = 0 THEN "DenominatorIsZero"
    ELSE IF ~(num <= den) THEN "FractionGreaterThanOne"
    ELSE "ok"

\* Fraction::check: the panic it raises, or "ok"
check(f) ==
    IF f.den = 0 THEN "ZeroDenominatorFraction"
    ELSE IF f.num > f.den THEN "FractionGreaterThanOne"
    ELSE "ok"

\* mult rounding up instead of down
mult_rounded_up(f, value) == (f.num * value + f.den - 1) \div f.den

\* mult dividing before it multiplies
mult_dividing_first(f, value) == f.num * (value \div f.den)

\* Fraction::mult on a balance: U256 product, U256 division, as_u128
mult(f, value) == (f.num * value) \div f.den

(* The two wide operands the contract multiplies by, u128::MAX and 10^21,    *)
(* are written as big-endian base-1000 digit strings; multWide is            *)
(* Fraction::mult on such an operand, computed by schoolbook multiplication  *)
(* and long division, exact like the U256 arithmetic of the source.          *)
Base == 1000
U128_MAX == <<340, 282, 366, 920, 938, 463, 463, 374, 607, 431, 768, 211, 455>>
BN == <<1, 0, 0, 0, 0, 0, 0, 0>>

RECURSIVE MulDigits(_, _, _)
\* digits * n + carry, processed from the least significant digit
MulDigits(digits, n, carry) ==
    IF digits = <<>>
    THEN (IF carry = 0 THEN <<>>
          ELSE Append(MulDigits(<<>>, n, carry \div Base), carry % Base))
    ELSE LET last == digits[Len(digits)]
             p == last * n + carry
         IN  Append(MulDigits(SubSeq(digits, 1, Len(digits) - 1), n, p \div Base),
                    p % Base)

RECURSIVE DivDigits(_, _, _)
\* long division of digits by d, rem is the running remainder
DivDigits(digits, d, rem) ==
    IF digits = <<>> THEN <<>>
    ELSE LET cur == rem * Base + Head(digits)
         IN  <<cur \div d>> \o DivDigits(Tail(digits), d, cur % d)

RECURSIVE Strip(_)
Strip(digits) ==
    IF digits # <<>> /\ Head(digits) = 0 THEN Strip(Tail(digits)) ELSE digits

multWide(f, wide) == Strip(DivDigits(MulDigits(wide, f.num, 0), f.den, 0))

RECURSIVE AddDigits(_, _, _)
AddDigits(a, b, carry) ==
    IF a = <<>> /\ b = <<>> THEN (IF carry = 0 THEN <<>> ELSE <<carry>>)
    ELSE LET la == IF a = <<>> THEN 0 ELSE a[Len(a)]
             lb == IF b = <<>> THEN 0 ELSE b[Len(b)]
             ra == IF a = <<>> THEN <<>> ELSE SubSeq(a, 1, Len(a) - 1)
             rb == IF b = <<>> THEN <<>> ELSE SubSeq(b, 1, Len(b) - 1)
             s == la + lb + carry
         IN  Append(AddDigits(ra, rb, s \div Base), s % Base)

RECURSIVE LessDigits(_, _)
\* a < b for stripped digit strings
LessDigits(a, b) ==
    IF Len(a) # Len(b) THEN Len(a) < Len(b)
    ELSE IF a = <<>> THEN FALSE
    ELSE IF Head(a) # Head(b) THEN Head(a) < Head(b)
    ELSE LessDigits(Tail(a), Tail(b))

\* the fractions that occur in the model; the valid ones pass Fraction::check
Fractions == Royalties \cup MinRoyalties \cup MaxRoyalties \cup Fees
ValidFractions == {f \in Fractions : check(f) = "ok"}

\* the fractions of the unit tests of Fraction, and three with the largest
\* denominator the comparison is checked with: the smallest positive one and
\* two neighbours just below 1
TestFractions ==
    { Frac(0, 1), Frac(0, 2), Frac(0, 500), Frac(1, 1), Frac(500, 500),
      Frac(1, 2), Frac(30, 60), Frac(50, 100), Frac(1, 3), Frac(40, 120),
      Frac(5, 10), Frac(9, 10), Frac(2, 3),
      Frac(1, MaxDen), Frac(MaxDen - 1, MaxDen), Frac(MaxDen, MaxDen + 1) }
ComparedFractions == ValidFractions \cup TestFractions

\* self.mult(u128::MAX) and self.mult(bn), evaluated once per fraction
mult_u128_max == [f \in ComparedFractions |-> multWide(f, U128_MAX)]
mult_bn == [f \in ValidFractions |-> multWide(f, BN)]

\* PartialEq for Fraction: self.mult(u128::MAX) == other.mult(u128::MAX)
eq(f, g) == mult_u128_max[f] = mult_u128_max[g]

\* an ordering that compares the numerators alone
cmp_by_numerator(f, g) ==
    IF f.num < g.num THEN "Less"
    ELSE IF f.num > g.num THEN "Greater"
    ELSE "Equal"

\* Ord for Fraction: compares self.mult(u128::MAX) with other.mult(u128::MAX)
cmpWide(f, g) ==
    IF LessDigits(mult_u128_max[f], mult_u128_max[g]) THEN "Less"
    ELSE IF LessDigits(mult_u128_max[g], mult_u128_max[f]) THEN "Greater"
    ELSE "Equal"
cmp_table == [p \in ValidFractions \X ValidFractions |-> cmpWide(p[1], p[2])]
cmp(f, g) == cmp_table[<<f, g>>]

----------------------------------------------------------------------------
(* Helpers for the persistent collections and the receipts *)

Put(f, k, v) == [x \in (DOMAIN f) \cup {k} |-> IF x = k THEN v ELSE f[x]]
Remove(f, k) == [x \in (DOMAIN f) \ {k} |-> f[x]]

InFlight == Len(notifications) + BagCardinality(transfers)
            + BagCardinality(callbacks) + BagCardinality(payments)

\* the receipt of mg_core::market::nft_on_approve(token_id, owner_id, approval_id, msg)
OnApprove(to, token_id, owner_id, approval_id, min_price, gate_id, creator_id) ==
    [kind |-> "nft_on_approve", to |-> to, token_id |-> token_id,
     owner_id |-> owner_id, approval_id |-> approval_id, min_price |-> min_price,
     gate_id |-> gate_id, creator_id |-> creator_id]

\* the receipt of mg_core::market::nft_on_revoke(token_id)
OnRevoke(to, token_id) ==
    [kind |-> "nft_on_revoke", to |-> to, token_id |-> token_id,
     owner_id |-> NONE, approval_id |-> 0, min_price |-> 0,
     gate_id |-> NONE, creator_id |-> NONE]

RECURSIVE SeqOf(_)
\* the elements of a set in the order an iteration yields them
SeqOf(set) ==
    IF set = {} THEN <<>>
    ELSE LET x == CHOOSE y \in set : TRUE IN <<x>> \o SeqOf(set \ {x})

\* the queue without its i-th receipt
Without(queue, i) == SubSeq(queue, 1, i - 1) \o SubSeq(queue, i + 1, Len(queue))

\* a method marked #[private] that any account may call
private_status_open(current_account_id, predecessor_account_id) == "ok"

\* #[private]: the method panics unless the contract itself is the predecessor
private_status(current_account_id, predecessor_account_id) ==
    IF current_account_id # predecessor_account_id THEN "MethodIsPrivate" ELSE "ok"

\* the i-th notification is the oldest one sent to its receiver
Deliverable(i) ==
    /\ i \in DOMAIN notifications
    /\ \A j \in 1..(i - 1) : notifications[j].to # notifications[i].to

RECURSIVE RemoveFirst(_, _)
\* Vec::remove of the first element equal to x (the loop of burn_token)
RemoveFirst(seq, x) ==
    IF seq = <<>> THEN <<>>
    ELSE IF Head(seq) = x THEN Tail(seq)
    ELSE <<Head(seq)>> \o RemoveFirst(Tail(seq), x)

----------------------------------------------------------------------------
(* NftContract *)

\* RoyaltyTooLarge test of create_collectible:
\* self.mintgate_fee.mult(bn) + royalty.mult(bn) >= bn with bn = 10^21
RoyaltyTooLargeWide(fee, royalty) ==
    ~LessDigits(Strip(AddDigits(mult_bn[fee], mult_bn[royalty], 0)), BN)
royalty_too_large_table ==
    [p \in ValidFractions \X ValidFractions |-> RoyaltyTooLargeWide(p[1], p[2])]
RoyaltyTooLarge(fee, royalty) == royalty_too_large_table[<<fee, royalty>>]

create_collectible_status(gate_id, title_len, supply, royalty) ==
    IF check(royalty) # "ok" THEN check(royalty)
    ELSE IF cmp(royalty, min_royalty) = "Less" THEN "RoyaltyMinThanAllowed"
    ELSE IF cmp(royalty, max_royalty) = "Greater" THEN "RoyaltyMaxThanAllowed"
    ELSE IF RoyaltyTooLarge(mintgate_fee, royalty) THEN "RoyaltyTooLarge"
    ELSE IF gate_id \in DOMAIN collectibles THEN "GateIdAlreadyExists"
    ELSE IF supply = 0 THEN "ZeroSupplyNotAllowed"
    ELSE IF title_len > 140 THEN "InvalidArgument"
    ELSE "ok"

create_collectible(caller, gate_id, title_len, supply, royalty) ==
    LET status == create_collectible_status(gate_id, title_len, supply, royalty)
        collectible == [gate_id |-> gate_id, creator_id |-> caller,
                        current_supply |-> supply, minted_tokens |-> <<>>,
                        royalty |-> royalty, copies |-> supply]
    IN  /\ status = "ok"
        /\ collectibles' = Put(collectibles, gate_id, collectible)
        /\ collectibles_by_creator' =
               [collectibles_by_creator EXCEPT ![caller] = @ \cup {gate_id}]
        /\ supplied' = [supplied EXCEPT ![gate_id] = supply]
        /\ claims' = [claims EXCEPT ![gate_id] = 0]
        /\ UNCHANGED <<tokens, tokens_by_owner, config_vars, market_vars, host_vars,
                       issued, sold, bought, settled, failed>>

\* delete_collectible without its test of minted_tokens
delete_collectible_status_ignoring_tokens(caller, gate_id) ==
    IF gate_id \notin DOMAIN collectibles THEN "GateIdNotFound"
    ELSE IF caller = collectibles[gate_id].creator_id \/ caller = admin_id THEN "ok"
    ELSE "NotAuthorized"

delete_collectible_status(caller, gate_id) ==
    IF gate_id \notin DOMAIN collectibles THEN "GateIdNotFound"
    ELSE IF collectibles[gate_id].minted_tokens # <<>> THEN "GateIdHasTokens"
    ELSE IF caller = collectibles[gate_id].creator_id \/ caller = admin_id THEN "ok"
    ELSE "NotAuthorized"

delete_collectible(caller, gate_id) ==
    LET status == delete_collectible_status(caller, gate_id)
    IN  /\ status = "ok"
        /\ collectibles' = Remove(collectibles, gate_id)
        /\ collectibles_by_creator' =
               [collectibles_by_creator EXCEPT
                   ![collectibles[gate_id].creator_id] = @ \ {gate_id}]
        /\ UNCHANGED <<tokens, tokens_by_owner, config_vars, market_vars, host_vars,
                       hist_vars>>

\* insert_token: tokens and tokens_by_owner after inserting token
insert_token_tokens(ts, token) == Put(ts, token.token_id, token)
insert_token_index(idx, token) ==
    [idx EXCEPT ![token.owner_id] = @ \cup {token.token_id}]

\* delete_token_from: its panic, and the two maps after it
delete_token_from_status(token_id, owner_id) ==
    IF token_id \in tokens_by_owner[owner_id] THEN "ok" ELSE "TokenIdNotOwnedBy"
delete_token_from_tokens(token_id) == Remove(tokens, token_id)
delete_token_from_index(token_id, owner_id) ==
    [tokens_by_owner EXCEPT ![owner_id] = @ \ {token_id}]

\* get_token / get_token_or_panic: the panic raised for token_id, or "ok"
get_token_status(token_id) ==
    IF token_id \notin DOMAIN tokens THEN "TokenIdNotFound"
    ELSE IF tokens[token_id].gate_id \notin DOMAIN collectibles THEN "GateIdNotFoundExpect"
    ELSE "ok"

\* claim_token without its test of current_supply
claim_token_status_ignoring_supply(gate_id) ==
    IF gate_id \notin DOMAIN collectibles THEN "GateIdNotFound" ELSE "ok"

claim_token_status(gate_id) ==
    IF gate_id \notin DOMAIN collectibles THEN "GateIdNotFound"
    ELSE IF collectibles[gate_id].current_supply = 0 THEN "GateIdExhausted"
    ELSE "ok"

\* claim_token: the token id it returns, self.tokens.len()
claim_token_value == Cardinality(DOMAIN tokens)

claim_token(caller, gate_id) ==
    LET status == claim_token_status(gate_id)
        token_id == claim_token_value
        token == [token_id |-> token_id, gate_id |-> gate_id, owner_id |-> caller,
                  approvals |-> EmptyMap, approval_counter |-> 0]
    IN  /\ status = "ok"
        /\ token_id < MaxTokens
        /\ tokens' = insert_token_tokens(tokens, token)
        /\ tokens_by_owner' = insert_token_index(tokens_by_owner, token)
        /\ collectibles' =
               [collectibles EXCEPT
                   ![gate_id].current_supply = @ - 1,
                   ![gate_id].minted_tokens = Append(@, token_id)]
        /\ issued' = Append(issued, token_id)
        /\ claims' = [claims EXCEPT ![gate_id] = @ + 1]
        /\ UNCHANGED <<collectibles_by_creator, config_vars, market_vars, host_vars,
                       supplied, sold, bought, settled, failed>>

burn_token_status(caller, token_id) ==
    IF get_token_status(token_id) # "ok" THEN get_token_status(token_id)
    ELSE IF delete_token_from_status(token_id, caller) # "ok" THEN "TokenIdNotOwnedBy"
    ELSE IF collectibles[tokens[token_id].gate_id].copies = 0 THEN "ArithmeticOverflow"
    ELSE "ok"

burn_token(caller, token_id) ==
    LET status == burn_token_status(caller, token_id)
        token == tokens[token_id]
        gate_id == token.gate_id
        revokes == SeqOf({OnRevoke(market_id, token_id) :
                             market_id \in DOMAIN token.approvals})
    IN  /\ status = "ok"
        /\ tokens' = delete_token_from_tokens(token_id)
        /\ tokens_by_owner' = delete_token_from_index(token_id, caller)
        /\ collectibles' =
               [collectibles EXCEPT
                   ![gate_id].copies = @ - 1,
                   ![gate_id].minted_tokens = RemoveFirst(@, token_id)]
        /\ notifications' = notifications \o revokes
        /\ UNCHANGED <<collectibles_by_creator, config_vars, market_vars, transfers,
                       callbacks, balance, payments, hist_vars>>

(* msg of nft_approve: a price stands for the JSON {"min_price": price},    *)
(* NO_MSG for None and BAD_MSG for a string that does not deserialize.       *)
NO_MSG == -1
BAD_MSG == -2

\* nft_approve without its test of the approvals the token holds
nft_approve_status_allowing_more(caller, token_id, msg) ==
    IF msg = BAD_MSG THEN "MsgFormatMinPriceMissing"
    ELSE IF msg = NO_MSG THEN "MsgFormatNotRecognized"
    ELSE IF get_token_status(token_id) # "ok" THEN get_token_status(token_id)
    ELSE IF caller # tokens[token_id].owner_id THEN "TokenIdNotOwnedBy"
    ELSE "ok"

nft_approve_status(caller, token_id, msg) ==
    IF msg = BAD_MSG THEN "MsgFormatMinPriceMissing"
    ELSE IF msg = NO_MSG THEN "MsgFormatNotRecognized"
    ELSE IF get_token_status(token_id) # "ok" THEN get_token_status(token_id)
    ELSE IF caller # tokens[token_id].owner_id THEN "TokenIdNotOwnedBy"
    ELSE IF Cardinality(DOMAIN tokens[token_id].approvals) > 0 THEN "OneApprovalAllowed"
    ELSE "ok"

nft_approve(caller, token_id, account_id, msg) ==
    LET status == nft_approve_status(caller, token_id, msg)
        token == tokens[token_id]
        counter == token.approval_counter + 1
        approval == [approval_id |-> counter, min_price |-> msg]
        collectible == collectibles[token.gate_id]
    IN  /\ status = "ok"
        /\ tokens' = [tokens EXCEPT
                         ![token_id].approval_counter = counter,
                         ![token_id].approvals = Put(@, account_id, approval)]
        /\ notifications' = Append(notifications,
               OnApprove(account_id, token_id, caller, counter, msg,
                         token.gate_id, collectible.creator_id))
        /\ UNCHANGED <<collectibles, collectibles_by_creator, tokens_by_owner,
                       config_vars, market_vars, transfers, callbacks, balance, payments,
                       hist_vars>>

\* nft_revoke without its test of the caller
nft_revoke_status_for_any_caller(caller, token_id, account_id) ==
    IF get_token_status(token_id) # "ok" THEN get_token_status(token_id)
    ELSE IF account_id \notin DOMAIN tokens[token_id].approvals THEN "RevokeApprovalFailed"
    ELSE "ok"

nft_revoke_status(caller, token_id, account_id) ==
    IF get_token_status(token_id) # "ok" THEN get_token_status(token_id)
    ELSE IF caller # tokens[token_id].owner_id THEN "TokenIdNotOwnedBy"
    ELSE IF account_id \notin DOMAIN tokens[token_id].approvals THEN "RevokeApprovalFailed"
    ELSE "ok"

nft_revoke(caller, token_id, account_id) ==
    LET status == nft_revoke_status(caller, token_id, account_id)
    IN  /\ status = "ok"
        /\ tokens' = [tokens EXCEPT ![token_id].approvals = Remove(@, account_id)]
        /\ notifications' = Append(notifications, OnRevoke(account_id, token_id))
        /\ UNCHANGED <<collectibles, collectibles_by_creator, tokens_by_owner,
                       config_vars, market_vars, transfers, callbacks, balance, payments,
                       hist_vars>>

nft_revoke_all_status(caller, token_id) ==
    IF get_token_status(token_id) # "ok" THEN get_token_status(token_id)
    ELSE IF caller # tokens[token_id].owner_id THEN "TokenIdNotOwnedBy"
    ELSE "ok"

nft_revoke_all(caller, token_id) ==
    LET status == nft_revoke_all_status(caller, token_id)
        revokes == SeqOf({OnRevoke(nft_id, token_id) :
                             nft_id \in DOMAIN tokens[token_id].approvals})
    IN  /\ status = "ok"
        /\ tokens' = [tokens EXCEPT ![token_id].approvals = EmptyMap]
        /\ notifications' = notifications \o revokes
        /\ UNCHANGED <<collectibles, collectibles_by_creator, tokens_by_owner,
                       config_vars, market_vars, transfers, callbacks, balance, payments,
                       hist_vars>>

(* batch_approve: approve_token runs on every (token_id, min_price) of the    *)
(* batch in turn, each on the tokens the items before it left.               *)

\* approve_token: the Err it returns on the tokens tks, or "ok"
approve_token_status(tks, token_id, owner_id) ==
    IF token_id \notin DOMAIN tks THEN "TokenIdNotFound"
    ELSE IF owner_id # tks[token_id].owner_id THEN "TokenIdNotOwnedBy"
    ELSE IF Cardinality(DOMAIN tks[token_id].approvals) > 0 THEN "OneApprovalAllowed"
    ELSE IF tks[token_id].gate_id \notin DOMAIN collectibles THEN "GateIdNotFound"
    ELSE "ok"

\* approve_token: self.tokens after it; the approval is stored before the
\* collectible is looked up
approve_token_tokens(tks, token_id, owner_id, account_id, min_price) ==
    IF approve_token_status(tks, token_id, owner_id) \in {"ok", "GateIdNotFound"}
    THEN [tks EXCEPT
             ![token_id].approval_counter = @ + 1,
             ![token_id].approvals =
                 Put(@, account_id,
                     [approval_id |-> tks[token_id].approval_counter + 1,
                      min_price |-> min_price])]
    ELSE tks

\* approve_token: the MarketApproveMsg of its Ok
approve_token_msg(tks, token_id, min_price) ==
    [min_price |-> min_price, gate_id |-> tks[token_id].gate_id,
     creator_id |-> collectibles[tks[token_id].gate_id].creator_id]

RECURSIVE batch_approve_tokens(_, _, _, _)
\* batch_approve: self.tokens after the loop over the items
batch_approve_tokens(tks, items, owner_id, account_id) ==
    IF items = <<>> THEN tks
    ELSE batch_approve_tokens(
             approve_token_tokens(tks, Head(items)[1], owner_id, account_id,
                                  Head(items)[2]),
             Tail(items), owner_id, account_id)

RECURSIVE batch_approve_oks(_, _, _, _)
\* batch_approve: the vector oks of (token_id, msg)
batch_approve_oks(tks, items, owner_id, account_id) ==
    IF items = <<>> THEN <<>>
    ELSE LET token_id == Head(items)[1]
             min_price == Head(items)[2]
             rest == batch_approve_oks(
                         approve_token_tokens(tks, token_id, owner_id, account_id,
                                              min_price),
                         Tail(items), owner_id, account_id)
         IN  IF approve_token_status(tks, token_id, owner_id) = "ok"
             THEN <<<<token_id, approve_token_msg(tks, token_id, min_price)>>>> \o rest
             ELSE rest

RECURSIVE batch_approve_errs(_, _, _, _)
\* batch_approve: the vector errs of (token_id, panic)
batch_approve_errs(tks, items, owner_id, account_id) ==
    IF items = <<>> THEN <<>>
    ELSE LET token_id == Head(items)[1]
             status == approve_token_status(tks, token_id, owner_id)
             rest == batch_approve_errs(
                         approve_token_tokens(tks, token_id, owner_id, account_id,
                                              Head(items)[2]),
                         Tail(items), owner_id, account_id)
         IN  IF status = "ok" THEN rest ELSE <<<<token_id, status>>>> \o rest

\* the receipt of mg_core::market::batch_on_approve(oks, owner_id), with the
\* arguments of the callback chained to it and the batch it was made for
BatchOnApprove(to, oks, owner_id, errs, items) ==
    [kind |-> "batch_on_approve", to |-> to, oks |-> oks, owner_id |-> owner_id,
     errs |-> errs, items |-> items]

\* batch_approve: it never panics, the errors go to resolve_batch_approve
batch_approve(caller, items, account_id) ==
    /\ tokens' = batch_approve_tokens(tokens, items, caller, account_id)
    /\ notifications' = Append(notifications,
           BatchOnApprove(account_id,
                          batch_approve_oks(tokens, items, caller, account_id),
                          caller,
                          batch_approve_errs(tokens, items, caller, account_id),
                          items))
    /\ UNCHANGED <<collectibles, collectibles_by_creator, tokens_by_owner,
                   config_vars, market_vars, transfers, callbacks, balance, payments,
                   hist_vars>>

\* the receipt of self_callback::resolve_batch_approve(errs) once its promise
\* is resolved
ResolveBatchApprove(m, ok) ==
    [kind |-> "resolve_batch_approve", ok |-> ok, to |-> m.to, oks |-> m.oks,
     owner_id |-> m.owner_id, errs |-> m.errs, items |-> m.items]

\* batch_on_approve executed from the i-th notification: the promise fails,
\* at the market because MarketContract has no method batch_on_approve
\* (MethodNotFound), at any other account because it holds no contract
batch_on_approve(i) ==
    LET m == notifications[i]
    IN  /\ Deliverable(i)
        /\ m.kind = "batch_on_approve"
        /\ notifications' = Without(notifications, i)
        /\ callbacks' = callbacks (+) SetToBag({ResolveBatchApprove(m, FALSE)})
        /\ UNCHANGED <<nft_vars, market_vars, transfers, balance, payments, hist_vars>>

\* resolve_batch_approve: the panic it raises for the receipt c, or "ok"
resolve_batch_approve_status(c) ==
    IF ~c.ok THEN "unreachable"
    ELSE IF c.errs # <<>> THEN "Errors"
    ELSE "ok"

\* resolve_batch_approve: the number of errors its panic message reports
resolve_batch_approve_count(c) == Len(c.errs)

\* resolve_batch_approve, run by the host; it changes no state
resolve_batch_approve(c) ==
    /\ BagIn(c, callbacks)
    /\ c.kind = "resolve_batch_approve"
    /\ callbacks' = callbacks (-) SetToBag({c})
    /\ UNCHANGED <<nft_vars, market_vars, notifications, transfers, balance, payments,
                   hist_vars>>

\* resolve_batch_approve invoked by predecessor_id: by the contract as the
\* continuation of its pending call, or by another account
resolve_batch_approve_invoked(predecessor_id, c) ==
    /\ private_status(NFT, predecessor_id) = "ok"
    /\ IF predecessor_id = NFT
       THEN resolve_batch_approve(c)
       ELSE UNCHANGED <<nft_vars, market_vars, host_vars, hist_vars>>

\* enforce_approval_id: Option<U64>
NO_APPROVAL_ID == -1
EnforceIds == {NO_APPROVAL_ID, 1}

\* nft_transfer: the panic it raises for these arguments, or "ok"
nft_transfer_status(sender_id, receiver_id, token_id, enforce_approval_id) ==
    IF get_token_status(token_id) # "ok" THEN get_token_status(token_id)
    ELSE LET token == tokens[token_id] IN
         IF sender_id # token.owner_id /\ sender_id \notin DOMAIN token.approvals
         THEN "SenderNotAuthToTransfer"
         ELSE IF token.owner_id = receiver_id THEN "ReceiverIsOwner"
         ELSE IF /\ enforce_approval_id # NO_APPROVAL_ID
                 /\ receiver_id \notin DOMAIN token.approvals
         THEN "ReceiverNotAnApprover"
         ELSE IF /\ enforce_approval_id # NO_APPROVAL_ID
                 /\ token.approvals[receiver_id].approval_id # enforce_approval_id
         THEN "EnforceApprovalFailed"
         ELSE delete_token_from_status(token_id, token.owner_id)

\* nft_transfer without token.approvals.clear()
nft_transfer_token_keeping_approvals(receiver_id, token_id) ==
    [tokens[token_id] EXCEPT !.owner_id = receiver_id]

\* nft_transfer: the token it stores when it does not panic
nft_transfer_token(receiver_id, token_id) ==
    [tokens[token_id] EXCEPT !.owner_id = receiver_id, !.approvals = EmptyMap]

\* nft_transfer: tokens and tokens_by_owner after a transfer that does not panic
nft_transfer_tokens(receiver_id, token_id) ==
    insert_token_tokens(delete_token_from_tokens(token_id),
                        nft_transfer_token(receiver_id, token_id))
nft_transfer_index(receiver_id, token_id) ==
    insert_token_index(delete_token_from_index(token_id, tokens[token_id].owner_id),
                       nft_transfer_token(receiver_id, token_id))

nft_transfer(sender_id, receiver_id, token_id, enforce_approval_id) ==
    LET status == nft_transfer_status(sender_id, receiver_id, token_id, enforce_approval_id)
    IN  /\ status = "ok"
        /\ tokens' = nft_transfer_tokens(receiver_id, token_id)
        /\ tokens_by_owner' = nft_transfer_index(receiver_id, token_id)
        /\ UNCHANGED <<collectibles, collectibles_by_creator, config_vars, market_vars,
                       host_vars, hist_vars>>

\* nft_payout: the panic it raises, or "ok"
nft_payout_status(token_id, bal) ==
    IF get_token_status(token_id) # "ok" THEN get_token_status(token_id)
    ELSE LET c == collectibles[tokens[token_id].gate_id] IN
         IF bal - mult(c.royalty, bal) - mult(mintgate_fee, bal) < 0
         THEN "ArithmeticOverflow"
         ELSE "ok"

\* nft_payout that leaves the fee to the owner
nft_payout_without_fee(token_id, bal) ==
    LET token == tokens[token_id]
        collectible == collectibles[token.gate_id]
        royalty_amount == mult(collectible.royalty, bal)
        payees == {collectible.creator_id, token.owner_id}
    IN  [a \in payees |->
            (IF a = collectible.creator_id THEN royalty_amount ELSE 0)
          + (IF a = token.owner_id THEN bal - royalty_amount ELSE 0)]

\* nft_payout that takes the fee from what the royalty leaves
nft_payout_fee_on_remainder(token_id, bal) ==
    LET token == tokens[token_id]
        collectible == collectibles[token.gate_id]
        royalty_amount == mult(collectible.royalty, bal)
        fee_amount == mult(mintgate_fee, bal - royalty_amount)
        owner_amount == bal - royalty_amount - fee_amount
        payees == {collectible.creator_id, mintgate_fee_account_id, token.owner_id}
    IN  [a \in payees |->
            (IF a = collectible.creator_id THEN royalty_amount ELSE 0)
          + (IF a = mintgate_fee_account_id THEN fee_amount ELSE 0)
          + (IF a = token.owner_id THEN owner_amount ELSE 0)]

\* nft_payout: the Payout map, entries of the same account added up
nft_payout(token_id, bal) ==
    LET token == tokens[token_id]
        collectible == collectibles[token.gate_id]
        royalty_amount == mult(collectible.royalty, bal)
        fee_amount == mult(mintgate_fee, bal)
        owner_amount == bal - royalty_amount - fee_amount
        payees == {collectible.creator_id, mintgate_fee_account_id, token.owner_id}
    IN  [a \in payees |->
            (IF a = collectible.creator_id THEN royalty_amount ELSE 0)
          + (IF a = mintgate_fee_account_id THEN fee_amount ELSE 0)
          + (IF a = token.owner_id THEN owner_amount ELSE 0)]

\* balance: Option<U128> of nft_transfer_payout
NO_BALANCE == -1

\* nft_transfer_payout: nft_payout first (when a balance is given), then nft_transfer
nft_transfer_payout_status(sender_id, receiver_id, token_id, approval_id, bal) ==
    IF bal # NO_BALANCE /\ nft_payout_status(token_id, bal) # "ok"
    THEN nft_payout_status(token_id, bal)
    ELSE nft_transfer_status(sender_id, receiver_id, token_id, approval_id)

\* nft_transfer_payout that computes the payout once the receiver owns the token
nft_transfer_payout_value_after_transfer(receiver_id, token_id, bal) ==
    IF bal = NO_BALANCE THEN EmptyMap
    ELSE LET collectible == collectibles[tokens[token_id].gate_id]
             royalty_amount == mult(collectible.royalty, bal)
             fee_amount == mult(mintgate_fee, bal)
             payees == {collectible.creator_id, mintgate_fee_account_id, receiver_id}
         IN  [a \in payees |->
                 (IF a = collectible.creator_id THEN royalty_amount ELSE 0)
               + (IF a = mintgate_fee_account_id THEN fee_amount ELSE 0)
               + (IF a = receiver_id THEN bal - royalty_amount - fee_amount ELSE 0)]

\* nft_transfer_payout: the Option<Payout> it returns, computed before the
\* transfer; an empty map stands for None
nft_transfer_payout_value(receiver_id, token_id, bal) ==
    IF bal = NO_BALANCE THEN EmptyMap ELSE nft_payout(token_id, bal)

\* nft_transfer_payout called directly by an account
nft_transfer_payout(sender_id, receiver_id, token_id, approval_id, bal) ==
    LET status == nft_transfer_payout_status(sender_id, receiver_id, token_id,
                                             approval_id, bal)
    IN  /\ status = "ok"
        /\ tokens' = nft_transfer_tokens(receiver_id, token_id)
        /\ tokens_by_owner' = nft_transfer_index(receiver_id, token_id)
        /\ UNCHANGED <<collectibles, collectibles_by_creator, config_vars, market_vars,
                       host_vars, hist_vars>>

\* the receipt that resolves the promise make_payouts waits for
Callback(t, ok, payout) ==
    [nft_id |-> t.nft_id, token_id |-> t.token_id, ok |-> ok, payout |-> payout]

\* the receipt of nft_transfer_payout, giving the token to the receiver even
\* when the call panics
nft_transfer_payout_receipt_not_reverted(t) ==
    LET status == nft_transfer_payout_status(MARKET, t.receiver_id, t.token_id,
                                             NO_APPROVAL_ID, t.balance)
    IN  /\ BagIn(t, transfers)
        /\ transfers' = transfers (-) SetToBag({t})
        /\ IF status = "ok"
           THEN /\ tokens' = nft_transfer_tokens(t.receiver_id, t.token_id)
                /\ tokens_by_owner' = nft_transfer_index(t.receiver_id, t.token_id)
                /\ callbacks' = callbacks (+)
                       SetToBag({Callback(t, TRUE,
                           nft_transfer_payout_value(t.receiver_id, t.token_id,
                                                     t.balance))})
           ELSE /\ callbacks' = callbacks (+) SetToBag({Callback(t, FALSE, EmptyMap)})
                /\ tokens' = IF t.token_id \in DOMAIN tokens
                             THEN [tokens EXCEPT ![t.token_id].owner_id = t.receiver_id,
                                                 ![t.token_id].approvals = EmptyMap]
                             ELSE tokens
                /\ UNCHANGED tokens_by_owner
        /\ UNCHANGED <<collectibles, collectibles_by_creator, config_vars, market_vars,
                       notifications, balance, payments, hist_vars>>

\* nft_transfer_payout executed from the receipt t that buy_token dispatched
nft_transfer_payout_receipt(t) ==
    LET status == nft_transfer_payout_status(MARKET, t.receiver_id, t.token_id,
                                             NO_APPROVAL_ID, t.balance)
    IN  /\ BagIn(t, transfers)
        /\ transfers' = transfers (-) SetToBag({t})
        /\ IF status = "ok"
           THEN /\ tokens' = nft_transfer_tokens(t.receiver_id, t.token_id)
                /\ tokens_by_owner' = nft_transfer_index(t.receiver_id, t.token_id)
                /\ callbacks' = callbacks (+)
                       SetToBag({Callback(t, TRUE,
                           nft_transfer_payout_value(t.receiver_id, t.token_id,
                                                     t.balance))})
           ELSE /\ callbacks' = callbacks (+) SetToBag({Callback(t, FALSE, EmptyMap)})
                /\ UNCHANGED <<tokens, tokens_by_owner>>
        /\ UNCHANGED <<collectibles, collectibles_by_creator, config_vars, market_vars,
                       notifications, balance, payments, hist_vars>>

----------------------------------------------------------------------------
(* MarketContract *)

\* remove_token_id_from on each index: TokenKeyNotFound unless the entry is there
remove_token_id_status(token_key, owner_id, gate_id, creator_id) ==
    IF token_key[2] \notin tokens_by_nft_id[token_key[1]] THEN "TokenKeyNotFound"
    ELSE IF token_key \notin tokens_by_owner_id[owner_id] THEN "TokenKeyNotFound"
    ELSE IF gate_id # NONE /\ token_key \notin tokens_by_gate_id[gate_id]
    THEN "TokenKeyNotFound"
    ELSE IF creator_id # NONE /\ token_key \notin tokens_by_creator_id[creator_id]
    THEN "TokenKeyNotFound"
    ELSE "ok"

\* remove_token_id that forgets self.tokens_for_sale.remove
remove_token_id_keeping_listing(token_key, owner_id, gate_id, creator_id) ==
    /\ tokens_for_sale' = tokens_for_sale
    /\ tokens_by_nft_id' = [tokens_by_nft_id EXCEPT ![token_key[1]] = @ \ {token_key[2]}]
    /\ tokens_by_owner_id' = [tokens_by_owner_id EXCEPT ![owner_id] = @ \ {token_key}]
    /\ tokens_by_gate_id' =
           IF gate_id # NONE
           THEN [tokens_by_gate_id EXCEPT ![gate_id] = @ \ {token_key}]
           ELSE tokens_by_gate_id
    /\ tokens_by_creator_id' =
           IF creator_id # NONE
           THEN [tokens_by_creator_id EXCEPT ![creator_id] = @ \ {token_key}]
           ELSE tokens_by_creator_id

remove_token_id(token_key, owner_id, gate_id, creator_id) ==
    /\ tokens_for_sale' = Remove(tokens_for_sale, token_key)
    /\ tokens_by_nft_id' = [tokens_by_nft_id EXCEPT ![token_key[1]] = @ \ {token_key[2]}]
    /\ tokens_by_owner_id' = [tokens_by_owner_id EXCEPT ![owner_id] = @ \ {token_key}]
    /\ tokens_by_gate_id' =
           IF gate_id # NONE
           THEN [tokens_by_gate_id EXCEPT ![gate_id] = @ \ {token_key}]
           ELSE tokens_by_gate_id
    /\ tokens_by_creator_id' =
           IF creator_id # NONE
           THEN [tokens_by_creator_id EXCEPT ![creator_id] = @ \ {token_key}]
           ELSE tokens_by_creator_id

\* get_tokens_for_sale: every listing
get_tokens_for_sale == {tokens_for_sale[k] : k \in DOMAIN tokens_for_sale}

\* get_tokens_by: "Token not found" when an indexed key has no listing, or "ok"
get_tokens_by_status(tids) ==
    IF \E k \in tids : k \notin DOMAIN tokens_for_sale THEN "TokenNotFoundExpect"
    ELSE "ok"

\* get_tokens_by: the listings of the keys that the index holds
get_tokens_by(tids) == {tokens_for_sale[k] : k \in tids \cap DOMAIN tokens_for_sale}

get_tokens_by_owner_id(owner_id) == get_tokens_by(tokens_by_owner_id[owner_id])
get_tokens_by_gate_id(gate_id) == get_tokens_by(tokens_by_gate_id[gate_id])
get_tokens_by_creator_id(creator_id) == get_tokens_by(tokens_by_creator_id[creator_id])

RECURSIVE SumOf(_, _)
SumOf(f, keys) ==
    IF keys = {} THEN 0
    ELSE LET k == CHOOSE x \in keys : TRUE IN f[k] + SumOf(f, keys \ {k})

\* buy_token without its test of the buyer against the owner
buy_token_status_allowing_owner(buyer_id, nft_id, token_id, deposit) ==
    LET token_key == TokenKey(nft_id, token_id) IN
    IF token_key \notin DOMAIN tokens_for_sale THEN "TokenKeyNotFound"
    ELSE LET sale == tokens_for_sale[token_key] IN
         IF deposit < sale.min_price THEN "NotEnoughDepositToBuyToken"
         ELSE remove_token_id_status(token_key, sale.owner_id, sale.gate_id,
                                     sale.creator_id)

buy_token_status(buyer_id, nft_id, token_id, deposit) ==
    LET token_key == TokenKey(nft_id, token_id) IN
    IF token_key \notin DOMAIN tokens_for_sale THEN "TokenKeyNotFound"
    ELSE LET sale == tokens_for_sale[token_key] IN
         IF buyer_id = sale.owner_id THEN "BuyOwnTokenNotAllowed"
         ELSE IF deposit < sale.min_price THEN "NotEnoughDepositToBuyToken"
         ELSE remove_token_id_status(token_key, sale.owner_id, sale.gate_id,
                                     sale.creator_id)

buy_token(buyer_id, nft_id, token_id, deposit) ==
    LET token_key == TokenKey(nft_id, token_id)
        status == buy_token_status(buyer_id, nft_id, token_id, deposit)
        sale == tokens_for_sale[token_key]
    IN  /\ status = "ok"
        /\ remove_token_id(token_key, sale.owner_id, sale.gate_id, sale.creator_id)
        /\ transfers' = transfers (+)
               SetToBag({[nft_id |-> nft_id, receiver_id |-> buyer_id,
                          token_id |-> token_id, balance |-> sale.min_price]})
        /\ balance' = [balance EXCEPT ![buyer_id] = @ - deposit,
                                      ![MARKET] = @ + deposit]
        /\ sold' = [sold EXCEPT ![token_key] = @ + 1]
        /\ bought' = [bought EXCEPT ![token_key] = TRUE]
        /\ UNCHANGED <<nft_vars, notifications, callbacks, payments, issued, supplied,
                       claims, settled, failed>>

\* the receipt of Promise::new(receiver_id).transfer(amount)
Transfer(receiver_id, amount) == [receiver_id |-> receiver_id, amount |-> amount]

\* the loop of make_payouts over the entries of payout: the balances once the
\* market has been charged the amounts it sends
pay(payout) ==
    [balance EXCEPT ![MARKET] = @ - SumOf(payout, DOMAIN payout)]

\* the same loop: one transfer receipt for every entry of payout
pay_receipts(payout) ==
    payments (+) SetToBag({Transfer(a, payout[a]) : a \in DOMAIN payout})

\* the host executes the transfer receipt p: the receiver is credited
transfer_receipt(p) ==
    /\ BagIn(p, payments)
    /\ payments' = payments (-) SetToBag({p})
    /\ balance' = [balance EXCEPT ![p.receiver_id] = @ + p.amount]
    /\ UNCHANGED <<nft_vars, market_vars, notifications, transfers, callbacks,
                   hist_vars>>

\* make_payouts run by a host that keeps the callback pending
make_payouts_kept_pending(c) ==
    /\ BagIn(c, callbacks)
    /\ settled' = [settled EXCEPT ![TokenKey(c.nft_id, c.token_id)] = @ + 1]
    /\ failed' = IF c.ok THEN failed
                 ELSE [failed EXCEPT ![TokenKey(c.nft_id, c.token_id)] = @ + 1]
    /\ balance' = IF c.ok THEN pay(c.payout) ELSE balance
    /\ payments' = IF c.ok THEN pay_receipts(c.payout) ELSE payments
    /\ UNCHANGED <<nft_vars, market_vars, notifications, transfers, callbacks, issued,
                   supplied, claims, sold, bought>>

\* make_payouts, run by the host once the promise of the receipt c is resolved
make_payouts(c) ==
    /\ BagIn(c, callbacks)
    /\ callbacks' = callbacks (-) SetToBag({c})
    /\ settled' = [settled EXCEPT ![TokenKey(c.nft_id, c.token_id)] = @ + 1]
    /\ failed' = IF c.ok THEN failed
                 ELSE [failed EXCEPT ![TokenKey(c.nft_id, c.token_id)] = @ + 1]
    /\ balance' = IF c.ok THEN pay(c.payout) ELSE balance
    /\ payments' = IF c.ok THEN pay_receipts(c.payout) ELSE payments
    /\ UNCHANGED <<nft_vars, market_vars, notifications, transfers, issued, supplied,
                   claims, sold, bought>>

\* the promise results an account other than the market can hand to
\* make_payouts when it schedules the method after a promise of its own
ForgedResults(predecessor_id) ==
    IF predecessor_id = MARKET THEN {}
    ELSE {[nft_id |-> NFT, token_id |-> 0, ok |-> TRUE,
           payout |-> Put(EmptyMap, predecessor_id, 1)]}

\* make_payouts invoked by predecessor_id: by the market as the continuation
\* of its pending call, or by another account with a result of its choice
make_payouts_invoked(predecessor_id, c) ==
    /\ private_status(MARKET, predecessor_id) = "ok"
    /\ IF predecessor_id = MARKET
       THEN make_payouts(c)
       ELSE /\ c \in ForgedResults(predecessor_id)
            /\ balance' = pay(c.payout)
            /\ payments' = pay_receipts(c.payout)
            /\ UNCHANGED <<nft_vars, market_vars, notifications, transfers,
                           callbacks, hist_vars>>

(* msg of the market's nft_on_approve: a string; json tells whether it is a   *)
(* JSON object, has_min_price whether the object has the field min_price.     *)
MarketMsg(json, has_min_price, min_price, gate_id, creator_id) ==
    [json |-> json, has_min_price |-> has_min_price, min_price |-> min_price,
     gate_id |-> gate_id, creator_id |-> creator_id]

\* the msg the NFT contract builds in nft_approve
ApproveMsg(min_price, gate_id, creator_id) ==
    MarketMsg(TRUE, TRUE, min_price, gate_id, creator_id)

\* serde_json::from_str::<MarketApproveMsg>(&msg): Err or ok
from_str_status(msg) ==
    IF ~msg.json THEN "Err"
    ELSE IF ~msg.has_min_price THEN "Err"
    ELSE "ok"

\* a market whose listings are keyed by the token id alone
TokenKeyOfAnyRegistry(nft_id, token_id) == <<NFT, token_id>>

\* the key under which nft_on_approve and nft_on_revoke file a listing
ListingKey(nft_id, token_id) == TokenKey(nft_id, token_id)

\* nft_on_approve: the panic it raises for msg, or "ok"
nft_on_approve_status(msg) ==
    IF from_str_status(msg) # "ok" THEN "MsgFormatMinPriceMissing" ELSE "ok"

\* nft_on_approve called by the account nft_id
nft_on_approve_call(nft_id, token_id, owner_id, approval_id, msg) ==
    LET token_key == ListingKey(nft_id, token_id)
    IN  /\ nft_on_approve_status(msg) = "ok"
        /\ tokens_for_sale' = Put(tokens_for_sale, token_key,
               [nft_id |-> nft_id, token_id |-> token_id, owner_id |-> owner_id,
                approval_id |-> approval_id, min_price |-> msg.min_price,
                gate_id |-> msg.gate_id, creator_id |-> msg.creator_id])
        /\ tokens_by_nft_id' = [tokens_by_nft_id EXCEPT ![nft_id] = @ \cup {token_id}]
        /\ tokens_by_owner_id' = [tokens_by_owner_id EXCEPT ![owner_id] = @ \cup {token_key}]
        /\ tokens_by_gate_id' =
               IF msg.gate_id # NONE
               THEN [tokens_by_gate_id EXCEPT ![msg.gate_id] = @ \cup {token_key}]
               ELSE tokens_by_gate_id
        /\ tokens_by_creator_id' =
               IF msg.creator_id # NONE
               THEN [tokens_by_creator_id EXCEPT ![msg.creator_id] = @ \cup {token_key}]
               ELSE tokens_by_creator_id

\* nft_on_approve executed from the i-th notification, sent by the NFT contract
nft_on_approve(i) ==
    LET m == notifications[i]
    IN  /\ Deliverable(i)
        /\ m.kind = "nft_on_approve"
        /\ m.to = MARKET
        /\ notifications' = Without(notifications, i)
        /\ nft_on_approve_call(NFT, m.token_id, m.owner_id, m.approval_id,
                               ApproveMsg(m.min_price, m.gate_id, m.creator_id))
        /\ bought' = [bought EXCEPT ![TokenKey(NFT, m.token_id)] = FALSE]
        /\ UNCHANGED <<nft_vars, transfers, callbacks, balance, payments, issued, supplied,
                       claims, sold, settled, failed>>

nft_on_revoke_status(nft_id, token_id) ==
    LET token_key == ListingKey(nft_id, token_id) IN
    IF token_key \notin DOMAIN tokens_for_sale THEN "TokenKeyNotFound"
    ELSE LET token == tokens_for_sale[token_key] IN
         remove_token_id_status(token_key, token.owner_id, token.gate_id, token.creator_id)

\* nft_on_revoke called by the account nft_id
nft_on_revoke_call(nft_id, token_id) ==
    LET token_key == ListingKey(nft_id, token_id)
        token == tokens_for_sale[token_key]
    IN  /\ nft_on_revoke_status(nft_id, token_id) = "ok"
        /\ remove_token_id(token_key, token.owner_id, token.gate_id, token.creator_id)

\* nft_on_revoke executed from the i-th notification, sent by the NFT contract
nft_on_revoke(i) ==
    LET m == notifications[i]
    IN  /\ Deliverable(i)
        /\ m.kind = "nft_on_revoke"
        /\ m.to = MARKET
        /\ notifications' = Without(notifications, i)
        /\ IF nft_on_revoke_status(NFT, m.token_id) = "ok"
           THEN nft_on_revoke_call(NFT, m.token_id)
           ELSE UNCHANGED market_vars
        /\ UNCHANGED <<nft_vars, transfers, callbacks, balance, payments, hist_vars>>

\* a host that undoes the approval whose notification failed
notification_without_contract_rolling_back(i) ==
    LET m == notifications[i]
    IN  /\ Deliverable(i)
        /\ m.to # MARKET
        /\ m.kind # "batch_on_approve"
        /\ notifications' = Without(notifications, i)
        /\ tokens' =
               IF /\ m.kind = "nft_on_approve"
                  /\ m.token_id \in DOMAIN tokens
                  /\ m.to \in DOMAIN tokens[m.token_id].approvals
               THEN [tokens EXCEPT ![m.token_id].approvals = Remove(@, m.to)]
               ELSE tokens
        /\ UNCHANGED <<collectibles, collectibles_by_creator, tokens_by_owner,
                       config_vars, market_vars, transfers, callbacks, balance, payments,
                       hist_vars>>

\* a notification sent to an account that holds no contract fails at the host
notification_without_contract(i) ==
    /\ Deliverable(i)
    /\ notifications[i].to # MARKET
    /\ notifications[i].kind # "batch_on_approve"
    /\ notifications' = Without(notifications, i)
    /\ UNCHANGED <<nft_vars, market_vars, transfers, callbacks, balance, payments, hist_vars>>

----------------------------------------------------------------------------
(* The end-to-end scenario of the specification, followed step by step *)

Scenario ==
    << <<"create_collectible", "bob", "g1", 10, Frac(15, 100)>>,
       <<"claim_token", "bob", "g1">>,
       <<"nft_approve", "bob", 0, MARKET, 2000>>,
       <<"nft_on_approve">>,
       <<"buy_token", "alice", NFT, 0, 2000>>,
       <<"nft_transfer_payout_receipt">>,
       <<"make_payouts">>,
       <<"transfer">>,
       <<"transfer">> >>

\* the position of a run that left the scenario
OFF == Len(Scenario) + 1

\* e2e advances while the calls of the run are exactly those of Scenario
Observe(call) ==
    e2e' = IF /\ e2e < Len(Scenario)
              /\ Scenario[e2e + 1][1] = call[1]
              /\ Scenario[e2e + 1] = call
           THEN e2e + 1
           ELSE OFF

----------------------------------------------------------------------------
(* The system *)

\* a call signed by an account; the model follows runs of at most MaxCalls of them
Call == calls < MaxCalls /\ calls' = calls + 1

Keys == {TokenKey(NFT, t) : t \in TokenIds}

\* NftContract::init: the panic it raises for these fractions, or "ok"
init_status(min, max, fee) ==
    IF check(min) # "ok" THEN check(min)
    ELSE IF check(max) # "ok" THEN check(max)
    ELSE IF check(fee) # "ok" THEN check(fee)
    ELSE IF cmp(max, min) = "Less" THEN "MaxRoyaltyLessThanMinRoyalty"
    ELSE "ok"

\* NftContract::init and MarketContract::init, and nothing in flight; the
\* history of the sales is kept for the token keys in keys
init_for(min, max, fee, fee_account_id, keys) ==
    /\ init_status(min, max, fee) = "ok"
    /\ collectibles = EmptyMap
    /\ collectibles_by_creator = [a \in Accounts |-> {}]
    /\ tokens = EmptyMap
    /\ tokens_by_owner = [a \in Accounts |-> {}]
    /\ admin_id = ADMIN
    /\ min_royalty = min
    /\ max_royalty = max
    /\ mintgate_fee = fee
    /\ mintgate_fee_account_id = fee_account_id
    /\ tokens_for_sale = EmptyMap
    /\ tokens_by_nft_id = [a \in Accounts |-> {}]
    /\ tokens_by_gate_id = [g \in Gates |-> {}]
    /\ tokens_by_owner_id = [a \in Accounts |-> {}]
    /\ tokens_by_creator_id = [a \in Accounts |-> {}]
    /\ notifications = <<>>
    /\ transfers = EmptyBag
    /\ callbacks = EmptyBag
    /\ balance = [a \in Accounts |-> 0]
    /\ payments = EmptyBag
    /\ issued = <<>>
    /\ supplied = [g \in Gates |-> 0]
    /\ claims = [g \in Gates |-> 0]
    /\ calls = 0
    /\ sold = [k \in keys |-> 0]
    /\ bought = [k \in keys |-> FALSE]
    /\ settled = [k \in keys |-> 0]
    /\ failed = [k \in keys |-> 0]
    /\ e2e = 0

init(min, max, fee, fee_account_id) == init_for(min, max, fee, fee_account_id, Keys)

\* the deployment of the simulation tests: royalties between 5/100 and 30/100,
\* a fee of 25/1000 paid to mintgate
Init == init(Frac(5, 100), Frac(30, 100), Frac(25, 1000), MINTGATE)

\* the calls and receipts of the two contracts working together
Next ==
    \/ \E gate_id \in Gates, supply \in {1, 10} :
          /\ create_collectible("bob", gate_id, 14, supply, Frac(15, 100))
          /\ Observe(<<"create_collectible", "bob", gate_id, supply, Frac(15, 100)>>)
          /\ Call
    \/ \E caller \in Users \cup {ADMIN}, gate_id \in Gates :
          /\ delete_collectible(caller, gate_id)
          /\ Observe(<<"delete_collectible">>)
          /\ Call
    \/ \E caller \in Users, gate_id \in Gates :
          /\ claim_token(caller, gate_id)
          /\ Observe(<<"claim_token", caller, gate_id>>)
          /\ Call
    \/ \E caller \in Users, token_id \in TokenIds :
          /\ burn_token(caller, token_id)
          /\ Observe(<<"burn_token">>)
          /\ Call
    \/ \E caller \in Users, token_id \in TokenIds, account_id \in Approvables,
          msg \in Prices :
          /\ nft_approve(caller, token_id, account_id, msg)
          /\ Observe(<<"nft_approve", caller, token_id, account_id, msg>>)
          /\ Call
    \/ \E caller \in Users, token_id \in TokenIds, account_id \in Approvables :
          /\ nft_revoke(caller, token_id, account_id)
          /\ Observe(<<"nft_revoke">>)
          /\ Call
    \/ \E caller \in Users, token_id \in TokenIds :
          /\ nft_revoke_all(caller, token_id)
          /\ Observe(<<"nft_revoke_all">>)
          /\ Call
    \/ \E sender_id \in Users, receiver_id \in Users, token_id \in TokenIds,
          enforce_approval_id \in EnforceIds :
          /\ nft_transfer(sender_id, receiver_id, token_id, enforce_approval_id)
          /\ Observe(<<"nft_transfer">>)
          /\ Call
    \/ \E sender_id \in Users, receiver_id \in Users, token_id \in TokenIds,
          approval_id \in {NO_APPROVAL_ID}, bal \in {NO_BALANCE, 2000} :
          /\ nft_transfer_payout(sender_id, receiver_id, token_id, approval_id, bal)
          /\ Observe(<<"nft_transfer_payout">>)
          /\ Call
    \/ \E t \in BagToSet(transfers) :
          /\ nft_transfer_payout_receipt(t)
          /\ Observe(<<"nft_transfer_payout_receipt">>)
          /\ UNCHANGED calls
    \/ \E buyer_id \in Users, token_id \in TokenIds, deposit \in Deposits :
          /\ buy_token(buyer_id, NFT, token_id, deposit)
          /\ Observe(<<"buy_token", buyer_id, NFT, token_id, deposit>>)
          /\ Call
    \/ \E predecessor_id \in Accounts :
       \E c \in BagToSet(callbacks) \cup ForgedResults(predecessor_id) :
          /\ make_payouts_invoked(predecessor_id, c)
          /\ Observe(<<"make_payouts">>)
          /\ UNCHANGED calls
    \/ \E p \in BagToSet(payments) :
          /\ transfer_receipt(p)
          /\ Observe(<<"transfer">>)
          /\ UNCHANGED calls
    \/ \E i \in DOMAIN notifications :
          /\ nft_on_approve(i)
          /\ Observe(<<"nft_on_approve">>)
          /\ UNCHANGED calls
    \/ \E i \in DOMAIN notifications :
          /\ nft_on_revoke(i)
          /\ Observe(<<"nft_on_revoke">>)
          /\ UNCHANGED calls
    \/ \E i \in DOMAIN notifications :
          /\ notification_without_contract(i)
          /\ Observe(<<"notification_without_contract">>)
          /\ UNCHANGED calls

Spec == Init /\ [][Next]_vars

\* any deployment NftContract::init accepts
InitRoyalty ==
    \E min \in MinRoyalties, max \in MaxRoyalties, fee \in Fees,
       fee_account_id \in FeeAccounts :
        init(min, max, fee, fee_account_id)

CallRoyalty == calls < MaxRoyaltyCalls /\ calls' = calls + 1

\* the NFT contract alone, collectibles created with any royalty
NextRoyalty ==
    \/ \E caller \in Users, gate_id \in Gates, supply \in Supplies,
          royalty \in Royalties :
          /\ create_collectible(caller, gate_id, 14, supply, royalty)
          /\ Observe(<<"create_collectible", caller, gate_id, supply, royalty>>)
          /\ CallRoyalty
    \/ \E caller \in Users, gate_id \in Gates :
          /\ claim_token(caller, gate_id)
          /\ Observe(<<"claim_token", caller, gate_id>>)
          /\ CallRoyalty
    \/ \E sender_id \in Users, receiver_id \in Users, token_id \in TokenIds :
          /\ nft_transfer(sender_id, receiver_id, token_id, NO_APPROVAL_ID)
          /\ Observe(<<"nft_transfer">>)
          /\ CallRoyalty

SpecRoyalty == InitRoyalty /\ [][NextRoyalty]_vars

CallSale == calls < MaxSaleCalls /\ calls' = calls + 1

\* the calls that lead to sales on the market
SaleCalls ==
    \/ \E gate_id \in Gates :
          /\ create_collectible("bob", gate_id, 14, 10, Frac(15, 100))
          /\ Observe(<<"create_collectible", "bob", gate_id, 10, Frac(15, 100)>>)
          /\ CallSale
    \/ \E caller \in Users, gate_id \in Gates :
          /\ claim_token(caller, gate_id)
          /\ Observe(<<"claim_token", caller, gate_id>>)
          /\ CallSale
    \/ \E caller \in Users, token_id \in TokenIds, msg \in Prices :
          /\ nft_approve(caller, token_id, MARKET, msg)
          /\ Observe(<<"nft_approve", caller, token_id, MARKET, msg>>)
          /\ CallSale
    \/ \E sender_id \in Users, receiver_id \in Users, token_id \in TokenIds :
          /\ nft_transfer(sender_id, receiver_id, token_id, NO_APPROVAL_ID)
          /\ Observe(<<"nft_transfer">>)
          /\ CallSale
    \/ \E buyer_id \in Users, token_id \in TokenIds, deposit \in Deposits :
          /\ buy_token(buyer_id, NFT, token_id, deposit)
          /\ Observe(<<"buy_token", buyer_id, NFT, token_id, deposit>>)
          /\ CallSale

\* the receipts and callbacks of a sale, executed by the host
SaleReceipts ==
    \/ \E i \in DOMAIN notifications :
          /\ nft_on_approve(i)
          /\ Observe(<<"nft_on_approve">>)
          /\ UNCHANGED calls
    \/ \E t \in BagToSet(transfers) :
          /\ nft_transfer_payout_receipt(t)
          /\ Observe(<<"nft_transfer_payout_receipt">>)
          /\ UNCHANGED calls
    \/ \E predecessor_id \in Accounts :
       \E c \in BagToSet(callbacks) \cup ForgedResults(predecessor_id) :
          /\ make_payouts_invoked(predecessor_id, c)
          /\ Observe(<<"make_payouts">>)
          /\ UNCHANGED calls
    \/ \E p \in BagToSet(payments) :
          /\ transfer_receipt(p)
          /\ Observe(<<"transfer">>)
          /\ UNCHANGED calls

NextSale == SaleCalls \/ SaleReceipts

\* sales on the market; the host executes every receipt and callback it holds
SpecSale == Init /\ [][NextSale]_vars /\ WF_vars(SaleReceipts)

\* the accounts that call the market as NFT contracts
Registries == {NFT, "alice"}

\* the msg strings nft_on_approve is called with: "", {}, and two messages
\* the NFT contract can build
MarketMsgs ==
    {MarketMsg(FALSE, FALSE, 0, NONE, NONE),
     MarketMsg(TRUE, FALSE, 0, "g1", "bob"),
     ApproveMsg(5, "g1", "bob"),
     ApproveMsg(7, NONE, NONE)}

CallMarket == calls < MaxMarketCalls /\ calls' = calls + 1

\* the market alone, called by any registry
NextMarket ==
    \/ \E nft_id \in Registries, token_id \in TokenIds, owner_id \in Users,
          msg \in MarketMsgs :
          /\ nft_on_approve_call(nft_id, token_id, owner_id, 1, msg)
          /\ Observe(<<"nft_on_approve">>)
          /\ CallMarket
          /\ UNCHANGED <<nft_vars, host_vars, hist_vars>>
    \/ \E nft_id \in Registries, token_id \in TokenIds :
          /\ nft_on_revoke_call(nft_id, token_id)
          /\ Observe(<<"nft_on_revoke">>)
          /\ CallMarket
          /\ UNCHANGED <<nft_vars, host_vars, hist_vars>>

SpecMarket == Init /\ [][NextMarket]_vars

\* the Option<Payout> a contract other than the NFT contract may return from
\* nft_transfer_payout: nothing, the balance it was given, or twice as much,
\* to itself
ForeignPayouts(t) ==
    {Put(EmptyMap, t.nft_id, amount) : amount \in {0, t.balance, 2 * t.balance}}

\* nft_transfer_payout executed by the contract t.nft_id, whose code is not
\* the NFT contract's: it fails, or returns any payout
foreign_nft_transfer_payout_receipt(t, ok, payout) ==
    /\ BagIn(t, transfers)
    /\ t.nft_id # NFT
    /\ transfers' = transfers (-) SetToBag({t})
    /\ callbacks' = callbacks (+)
           SetToBag({Callback(t, ok, IF ok THEN payout ELSE EmptyMap)})
    /\ UNCHANGED <<nft_vars, market_vars, notifications, balance, payments, hist_vars>>

\* the keys of the tokens of every contract that lists on the market
ForeignKeys == {TokenKey(nft_id, token_id) : nft_id \in Registries, token_id \in TokenIds}

\* the deployment of the simulation tests, called by several contracts
InitForeign ==
    init_for(Frac(5, 100), Frac(30, 100), Frac(25, 1000), MINTGATE, ForeignKeys)

CallForeign == calls < MaxForeignCalls /\ calls' = calls + 1

\* the market listing tokens of any contract that calls nft_on_approve, and
\* selling them
NextForeign ==
    \/ \E nft_id \in Registries, token_id \in TokenIds, owner_id \in Users,
          msg \in MarketMsgs :
          /\ nft_on_approve_call(nft_id, token_id, owner_id, 1, msg)
          /\ Observe(<<"nft_on_approve">>)
          /\ CallForeign
          /\ UNCHANGED <<nft_vars, host_vars, hist_vars>>
    \/ \E buyer_id \in Users, nft_id \in Registries, token_id \in TokenIds,
          deposit \in Deposits :
          /\ buy_token(buyer_id, nft_id, token_id, deposit)
          /\ Observe(<<"buy_token", buyer_id, nft_id, token_id, deposit>>)
          /\ CallForeign
    \/ \E t \in BagToSet(transfers) :
          /\ t.nft_id = NFT
          /\ nft_transfer_payout_receipt(t)
          /\ Observe(<<"nft_transfer_payout_receipt">>)
          /\ UNCHANGED calls
    \/ \E t \in BagToSet(transfers), ok \in BOOLEAN :
       \E payout \in ForeignPayouts(t) :
          /\ foreign_nft_transfer_payout_receipt(t, ok, payout)
          /\ Observe(<<"nft_transfer_payout_receipt">>)
          /\ UNCHANGED calls
    \/ \E c \in BagToSet(callbacks) :
          /\ make_payouts_invoked(MARKET, c)
          /\ Observe(<<"make_payouts">>)
          /\ UNCHANGED calls
    \/ \E p \in BagToSet(payments) :
          /\ transfer_receipt(p)
          /\ Observe(<<"transfer">>)
          /\ UNCHANGED calls

SpecForeign == InitForeign /\ [][NextForeign]_vars

\* the batches batch_approve is called with: up to MaxBatch items on the
\* token ids handed out, stored or not, the same id twice included
BatchItems ==
    UNION {[1..n -> TokenIds \X {5}] : n \in 0..MaxBatch}

\* the marketplace the batches are submitted for
BatchMarkets == {MARKET}

CallBatch == calls < MaxBatchCalls /\ calls' = calls + 1

\* the approvals of the NFT contract, one by one and in batches; a batch is
\* accepted whatever receipts and callbacks of earlier batches are pending
NextBatch ==
    \/ \E gate_id \in Gates :
          /\ create_collectible("bob", gate_id, 14, 10, Frac(15, 100))
          /\ Observe(<<"create_collectible", "bob", gate_id, 10, Frac(15, 100)>>)
          /\ CallBatch
    \/ \E caller \in Users, gate_id \in Gates :
          /\ claim_token(caller, gate_id)
          /\ Observe(<<"claim_token", caller, gate_id>>)
          /\ CallBatch
    \/ \E caller \in Users, token_id \in TokenIds, account_id \in Approvables :
          /\ nft_approve(caller, token_id, account_id, 5)
          /\ Observe(<<"nft_approve", caller, token_id, account_id, 5>>)
          /\ CallBatch
    \/ \E caller \in Users, items \in BatchItems, account_id \in BatchMarkets :
          /\ batch_approve(caller, items, account_id)
          /\ Observe(<<"batch_approve">>)
          /\ CallBatch
    \/ \E caller \in Users, token_id \in TokenIds, account_id \in Approvables :
          /\ nft_revoke(caller, token_id, account_id)
          /\ Observe(<<"nft_revoke">>)
          /\ CallBatch
    \/ \E sender_id \in Users, receiver_id \in Users, token_id \in TokenIds :
          /\ nft_transfer(sender_id, receiver_id, token_id, NO_APPROVAL_ID)
          /\ Observe(<<"nft_transfer">>)
          /\ CallBatch
    \/ \E i \in DOMAIN notifications :
          /\ batch_on_approve(i)
          /\ Observe(<<"batch_on_approve">>)
          /\ UNCHANGED calls
    \/ \E predecessor_id \in Accounts, c \in BagToSet(callbacks) :
          /\ resolve_batch_approve_invoked(predecessor_id, c)
          /\ Observe(<<"resolve_batch_approve">>)
          /\ UNCHANGED calls
    \/ \E i \in DOMAIN notifications :
          /\ nft_on_approve(i)
          /\ Observe(<<"nft_on_approve">>)
          /\ UNCHANGED calls
    \/ \E i \in DOMAIN notifications :
          /\ nft_on_revoke(i)
          /\ Observe(<<"nft_on_revoke">>)
          /\ UNCHANGED calls
    \/ \E i \in DOMAIN notifications :
          /\ notification_without_contract(i)
          /\ Observe(<<"notification_without_contract">>)
          /\ UNCHANGED calls

SpecBatch == Init /\ [][NextBatch]_vars

----------------------------------------------------------------------------
(* Properties *)

\* no receipt is in flight
Quiescent == InFlight = 0

\* the receipts in flight of the bag B that are about the token of key k
PendingIn(B, k) ==
    LET about == {x \in BagToSet(B) : TokenKey(x.nft_id, x.token_id) = k}
    IN  SumOf([x \in about |-> CopiesIn(x, B)], about)

\* C1: whenever nothing is in flight, every listing of the market agrees with
\* the NFT contract: its token exists, is owned by the listing's owner and holds
\* an approval for the market with the listing's approval_id and min_price.
C1_ListingsAgreeWithRegistry ==
    Quiescent =>
        \A k \in DOMAIN tokens_for_sale :
            LET sale == tokens_for_sale[k] IN
            /\ sale.token_id \in DOMAIN tokens
            /\ tokens[sale.token_id].owner_id = sale.owner_id
            /\ MARKET \in DOMAIN tokens[sale.token_id].approvals
            /\ tokens[sale.token_id].approvals[MARKET].approval_id = sale.approval_id
            /\ tokens[sale.token_id].approvals[MARKET].min_price = sale.min_price

\* C2: the token ids returned by claim_token are strictly increasing, so no
\* id is ever returned twice, also when tokens were burned in between.
C2_TokenIdsStrictlyIncrease ==
    \A i, j \in 1..Len(issued) : i < j => issued[i] < issued[j]

\* C3 (as amended): once buy_token was admitted on a listing, and for as long
\* as nft_on_approve has not listed the key again, the listing is gone and
\* every buy_token on the key fails with TokenKeyNotFound, also while the
\* transfer is pending; and every admitted buy is settled at most once: its
\* transfer or its callback is in flight, or make_payouts has run for it.
C3_BoughtListingIsGone ==
    \A k \in Keys :
        /\ bought[k] =>
              /\ k \notin DOMAIN tokens_for_sale
              /\ \A buyer_id \in Users, deposit \in Deposits :
                    buy_token_status(buyer_id, k[1], k[2], deposit) = "TokenKeyNotFound"
        /\ PendingIn(transfers, k) + PendingIn(callbacks, k) + settled[k] = sold[k]

\* C3 witness: a listing was bought and its transfer is still pending
C3_Witness ==
    \E k \in Keys : bought[k] /\ sold[k] = 1 /\ PendingIn(transfers, k) = 1

\* C3 as stated: after an admitted buy_token on a key, every later buy_token on
\* that key fails with TokenKeyNotFound.
C3_Original ==
    \A k \in Keys :
        sold[k] > 0 =>
            \A buyer_id \in Users, deposit \in Deposits :
                buy_token_status(buyer_id, k[1], k[2], deposit) = "TokenKeyNotFound"

\* the amount the transfer receipts in flight carry to the account a
InTransitTo(a) ==
    LET about == {p \in BagToSet(payments) : p.receiver_id = a}
    IN  SumOf([p \in about |-> p.amount * CopiesIn(p, payments)], about)

\* C4: once make_payouts has run in the end-to-end scenario the market has
\* sent 50 to the fee account and 1950 to bob out of the 2000 alice paid and
\* holds nothing, the listing is gone from the market, alice owns token 0 and
\* the token has no approvals; at the end of the scenario, when the two
\* transfers have executed, the fee account has received 50 and bob 1950.
C4_EndToEndSale ==
    /\ e2e \in (Len(Scenario) - 2)..Len(Scenario) =>
        /\ balance[MINTGATE] + InTransitTo(MINTGATE) = 50
        /\ balance["bob"] + InTransitTo("bob") = 1950
        /\ balance["alice"] = -2000
        /\ balance[MARKET] = 0
        /\ TokenKey(NFT, 0) \notin DOMAIN tokens_for_sale
        /\ get_tokens_for_sale = {}
        /\ get_tokens_by_owner_id("bob") = {}
        /\ 0 \in DOMAIN tokens
        /\ tokens[0].owner_id = "alice"
        /\ tokens[0].approvals = EmptyMap
    /\ e2e = Len(Scenario) =>
        /\ payments = EmptyBag
        /\ balance[MINTGATE] = 50
        /\ balance["bob"] = 1950

\* C4 witness: the scenario ran to its end, the two transfers included
C4_Witness ==
    /\ e2e = Len(Scenario)
    /\ settled[TokenKey(NFT, 0)] = 1
    /\ balance[MINTGATE] = 50

\* C5: for every token and every balance b, nft_payout does not underflow, its
\* values sum to b, it names at most 3 payees, and exactly 2 when the creator
\* is the owner and the fee account is a third account.
C5_PayoutExact ==
    \A token_id \in DOMAIN tokens, b \in Balances :
        LET payout == nft_payout(token_id, b)
            creator_id == collectibles[tokens[token_id].gate_id].creator_id
            owner_id == tokens[token_id].owner_id
        IN  /\ nft_payout_status(token_id, b) = "ok"
            /\ \A a \in DOMAIN payout : payout[a] >= 0
            /\ SumOf(payout, DOMAIN payout) = b
            /\ Cardinality(DOMAIN payout) <= 3
            /\ (creator_id = owner_id /\ mintgate_fee_account_id # owner_id)
                  => Cardinality(DOMAIN payout) = 2

\* C5 witness: a token owned by its creator and one owned by someone else,
\* under a fee of 1/3 paid to a third account
C5_Witness ==
    /\ mintgate_fee = Frac(1, 3)
    /\ mintgate_fee_account_id = MINTGATE
    /\ \E t \in DOMAIN tokens :
          tokens[t].owner_id = collectibles[tokens[t].gate_id].creator_id
    /\ \E t \in DOMAIN tokens :
          /\ tokens[t].owner_id # collectibles[tokens[t].gate_id].creator_id
          /\ Cardinality(DOMAIN nft_payout(t, 40)) = 3

\* C6: once every purchase is settled, none on a failed promise, and every
\* transfer of make_payouts has executed, the market keeps nothing of the
\* deposits: the payees have received all that the buyers paid.
C6_WholeDepositDistributed ==
    (Quiescent /\ \A k \in Keys : failed[k] = 0) => balance[MARKET] = 0

\* C7: a step that changes the owner of a token (nft_transfer or
\* nft_transfer_payout, by the owner or by an approved account) leaves the
\* token without approvals.
C7_TransferClearsApprovals ==
    [][\A t \in DOMAIN tokens :
          (t \in DOMAIN tokens' /\ tokens'[t].owner_id # tokens[t].owner_id)
              => tokens'[t].approvals = EmptyMap]_vars

\* C7 witness: the market, approved with approval 1, has just transferred a
\* token to its buyer, and the token holds no approval
C7_Witness ==
    \E c \in BagToSet(callbacks) :
        /\ c.ok
        /\ c.token_id \in DOMAIN tokens
        /\ tokens[c.token_id].approval_counter = 1
        /\ tokens[c.token_id].approvals = EmptyMap

\* C8: a collectible created with supply S has current_supply = S - k after k
\* claims, whatever was burned or transferred meanwhile; k never exceeds S,
\* and at current_supply = 0 claim_token fails with GateIdExhausted.
C8_SupplyConservation ==
    \A gate_id \in DOMAIN collectibles :
        /\ claims[gate_id] <= supplied[gate_id]
        /\ collectibles[gate_id].current_supply = supplied[gate_id] - claims[gate_id]
        /\ claims[gate_id] = supplied[gate_id]
              => claim_token_status(gate_id) = "GateIdExhausted"

\* C8 witness: a collectible is exhausted and its token was burned
C8_Witness ==
    \E gate_id \in DOMAIN collectibles :
        /\ supplied[gate_id] = 1
        /\ claims[gate_id] = 1
        /\ collectibles[gate_id].minted_tokens = <<>>

\* exact comparisons of fractions, by cross-multiplication
LessExact(f, g) == f.num * g.den < g.num * f.den
SumAtLeastOne(f, g) == f.num * g.den + g.num * f.den >= f.den * g.den

\* C9: for an unused gate, a positive supply and a valid royalty,
\* create_collectible fails exactly when the royalty is below min_royalty,
\* above max_royalty, or fee + royalty >= 1 as exact rationals.
C9_RoyaltyBounds ==
    \A gate_id \in Gates \ DOMAIN collectibles, supply \in Supplies \ {0},
       royalty \in {r \in Royalties : check(r) = "ok"} :
        (create_collectible_status(gate_id, 14, supply, royalty) # "ok")
            <=> \/ LessExact(royalty, min_royalty)
                \/ LessExact(max_royalty, royalty)
                \/ SumAtLeastOne(mintgate_fee, royalty)

\* C10: whenever nothing is in flight, a token approved to the market is
\* listed; a listed token is in get_tokens_for_sale and in the by-owner,
\* by-gate and by-creator results of its own owner, gate and creator only;
\* and a token that is not listed is in no index, so that the queries answer.
C10_ListingLifecycle ==
    Quiescent =>
        \A k \in Keys :
            /\ (k[2] \in DOMAIN tokens /\ MARKET \in DOMAIN tokens[k[2]].approvals)
                  => k \in DOMAIN tokens_for_sale
            /\ IF k \in DOMAIN tokens_for_sale
               THEN LET sale == tokens_for_sale[k] IN
                    /\ sale \in get_tokens_for_sale
                    /\ \A a \in Accounts :
                          sale \in get_tokens_by_owner_id(a) <=> a = sale.owner_id
                    /\ \A g \in Gates :
                          sale \in get_tokens_by_gate_id(g) <=> g = sale.gate_id
                    /\ \A a \in Accounts :
                          sale \in get_tokens_by_creator_id(a) <=> a = sale.creator_id
               ELSE /\ \A a \in Accounts :
                          /\ k \notin tokens_by_owner_id[a]
                          /\ get_tokens_by_status(tokens_by_owner_id[a]) = "ok"
                    /\ \A g \in Gates :
                          /\ k \notin tokens_by_gate_id[g]
                          /\ get_tokens_by_status(tokens_by_gate_id[g]) = "ok"
                    /\ \A a \in Accounts :
                          /\ k \notin tokens_by_creator_id[a]
                          /\ get_tokens_by_status(tokens_by_creator_id[a]) = "ok"

\* the steps that dispatch an nft_transfer_payout receipt
Dispatched == BagCardinality(transfers') > BagCardinality(transfers)

\* C11: buy_token fails with TokenKeyNotFound when the key has no listing, with
\* BuyOwnTokenNotAllowed when the caller is the listed owner, and with
\* NotEnoughDepositToBuyToken when the deposit is below min_price; the market
\* state changes by a purchase and a transfer is dispatched only in a step
\* whose buy_token call passes the three tests.
C11_BuyTokenRejections ==
    /\ [](\A buyer_id \in Users, k \in Keys, deposit \in Deposits \cup {0, 4} :
            LET status == buy_token_status(buyer_id, k[1], k[2], deposit) IN
            IF k \notin DOMAIN tokens_for_sale THEN status = "TokenKeyNotFound"
            ELSE IF buyer_id = tokens_for_sale[k].owner_id
                 THEN status = "BuyOwnTokenNotAllowed"
            ELSE IF deposit < tokens_for_sale[k].min_price
                 THEN status = "NotEnoughDepositToBuyToken"
            ELSE TRUE)
    /\ [][(Dispatched \/ balance'[MARKET] > balance[MARKET]) =>
            \E buyer_id \in Users, k \in Keys, deposit \in Deposits :
               /\ k \in DOMAIN tokens_for_sale
               /\ buyer_id # tokens_for_sale[k].owner_id
               /\ deposit >= tokens_for_sale[k].min_price
               /\ k \notin DOMAIN tokens_for_sale'
               /\ balance'[buyer_id] = balance[buyer_id] - deposit
               /\ balance'[MARKET] = balance[MARKET] + deposit
               /\ PendingIn(transfers', k) = PendingIn(transfers, k) + 1]_vars

\* C11 witness: a purchase was admitted while another listing stands whose
\* owner, and a deposit of 7 below its min_price of 2000, are both rejected
C11_Witness ==
    \E k, l \in Keys :
        /\ PendingIn(transfers, k) = 1
        /\ l \in DOMAIN tokens_for_sale
        /\ tokens_for_sale[l].min_price = 2000
        /\ buy_token_status(tokens_for_sale[l].owner_id, l[1], l[2], 2000)
               = "BuyOwnTokenNotAllowed"
        /\ \E buyer_id \in Users :
               buy_token_status(buyer_id, l[1], l[2], 7) = "NotEnoughDepositToBuyToken"

\* C12: nft_transfer and nft_transfer_payout fail for an unknown token, for a
\* caller that is neither the owner nor approved, and for a receiver that is
\* the owner; and the owner_id of a token changes only in a step that is a
\* transfer to the new owner which the owner or an approved account may make.
C12_OwnerChangesByTransferOnly ==
    /\ [](\A sender_id \in Accounts, receiver_id \in Accounts,
             token_id \in 0..MaxTokens, bal \in {NO_BALANCE, 2000} :
            LET status == nft_transfer_payout_status(sender_id, receiver_id, token_id,
                                                     NO_APPROVAL_ID, bal)
            IN  /\ status = nft_transfer_status(sender_id, receiver_id, token_id,
                                                NO_APPROVAL_ID)
                /\ IF token_id \notin DOMAIN tokens THEN status = "TokenIdNotFound"
                   ELSE IF /\ sender_id # tokens[token_id].owner_id
                           /\ sender_id \notin DOMAIN tokens[token_id].approvals
                        THEN status = "SenderNotAuthToTransfer"
                   ELSE IF receiver_id = tokens[token_id].owner_id
                        THEN status = "ReceiverIsOwner"
                   ELSE status = "ok")
    /\ [][\A t \in DOMAIN tokens :
            (t \in DOMAIN tokens' /\ tokens'[t].owner_id # tokens[t].owner_id) =>
               /\ tokens'[t] = nft_transfer_token(tokens'[t].owner_id, t)
               /\ tokens_by_owner' = nft_transfer_index(tokens'[t].owner_id, t)
               /\ \E sender_id \in Accounts, e \in EnforceIds :
                      /\ \/ sender_id = tokens[t].owner_id
                         \/ sender_id \in DOMAIN tokens[t].approvals
                      /\ nft_transfer_status(sender_id, tokens'[t].owner_id, t, e) = "ok"]_vars

\* C13: nft_transfer called by an approved account with an expected approval
\* id, for a receiver other than the owner, is rejected when the id differs
\* from the approval_id stored for the caller and carried out when it equals it.
C13_ExpectedApprovalOfCaller ==
    \A token_id \in DOMAIN tokens :
        \A sender_id \in DOMAIN tokens[token_id].approvals,
           receiver_id \in Accounts \ {tokens[token_id].owner_id},
           e \in 1..(MaxCalls + 1) :
            (nft_transfer_status(sender_id, receiver_id, token_id, e) = "ok")
                <=> (e = tokens[token_id].approvals[sender_id].approval_id)

\* C14: every token holds at most one approval; on a token that holds one,
\* nft_approve and an item of batch_approve by the owner fail with
\* OneApprovalAllowed, whatever account the new approval is for, and the
\* item leaves the token as it is.
C14_OneApprovalPerToken ==
    \A token_id \in DOMAIN tokens :
        LET token == tokens[token_id] IN
        /\ Cardinality(DOMAIN token.approvals) <= 1
        /\ token.approvals # EmptyMap =>
              \A account_id \in Approvables, min_price \in Prices :
                 /\ nft_approve_status(token.owner_id, token_id, min_price)
                        = "OneApprovalAllowed"
                 /\ approve_token_status(tokens, token_id, token.owner_id)
                        = "OneApprovalAllowed"
                 /\ batch_approve_tokens(tokens, <<<<token_id, min_price>>>>,
                                         token.owner_id, account_id) = tokens
                 /\ batch_approve_errs(tokens, <<<<token_id, min_price>>>>,
                                       token.owner_id, account_id)
                        = <<<<token_id, "OneApprovalAllowed">>>>

\* C14 witness: a batch for the market held a token that its owner had
\* approved to bob; the item failed and the approval of bob stands
C14_Witness ==
    \E c \in BagToSet(callbacks), token_id \in DOMAIN tokens :
        /\ c.kind = "resolve_batch_approve"
        /\ c.to = MARKET
        /\ <<token_id, "OneApprovalAllowed">> \in {c.errs[i] : i \in DOMAIN c.errs}
        /\ DOMAIN tokens[token_id].approvals = {"bob"}
        /\ tokens[token_id].approval_counter = 1

\* C15: for every token id, no step decreases approval_counter; a step that
\* grants an approval increments it by exactly 1 and stores the new value as
\* the approval_id; every other step leaves it unchanged.
C15_ApprovalCounterMonotonic ==
    [][\A t \in DOMAIN tokens \cap DOMAIN tokens' :
          LET granted == {a \in DOMAIN tokens'[t].approvals :
                             \/ a \notin DOMAIN tokens[t].approvals
                             \/ tokens'[t].approvals[a] # tokens[t].approvals[a]}
          IN  /\ tokens'[t].approval_counter >= tokens[t].approval_counter
              /\ IF granted = {}
                 THEN tokens'[t].approval_counter = tokens[t].approval_counter
                 ELSE /\ tokens'[t].approval_counter = tokens[t].approval_counter + 1
                      /\ \A a \in granted :
                            tokens'[t].approvals[a].approval_id
                                = tokens'[t].approval_counter]_vars

\* C16: the nft_transfer_payout that the market dispatched resolves its
\* promise with the payout nft_payout gave just before the call, whose
\* remainder goes to the previous owner and not to the receiver, and the
\* receiver then owns the token; when the call fails the promise fails with
\* no payout and the NFT contract is unchanged.
C16_PayoutBeforeTransfer ==
    [][\A t \in BagToSet(transfers) :
          CopiesIn(t, transfers') < CopiesIn(t, transfers) =>
             \E c \in BagToSet(callbacks') :
                /\ CopiesIn(c, callbacks') = CopiesIn(c, callbacks) + 1
                /\ c.token_id = t.token_id
                /\ IF nft_transfer_payout_status(MARKET, t.receiver_id, t.token_id,
                                                 NO_APPROVAL_ID, t.balance) = "ok"
                   THEN LET previous == tokens[t.token_id].owner_id
                            collectible == collectibles[tokens[t.token_id].gate_id]
                        IN  /\ c.ok
                            /\ c.payout = nft_payout(t.token_id, t.balance)
                            /\ previous \in DOMAIN c.payout
                            /\ t.receiver_id \in DOMAIN c.payout =>
                                  t.receiver_id \in {collectible.creator_id,
                                                     mintgate_fee_account_id}
                            /\ tokens'[t.token_id].owner_id = t.receiver_id
                   ELSE /\ ~c.ok
                        /\ c.payout = EmptyMap
                        /\ UNCHANGED nft_vars]_vars

\* C16 witness: a transfer for a price of 2000 has resolved; its payout gives
\* the remainder to the previous owner bob, and alice owns the token
C16_Witness ==
    \E c \in BagToSet(callbacks) :
        /\ c.ok
        /\ tokens[c.token_id].owner_id = "alice"
        /\ "alice" \notin DOMAIN c.payout
        /\ "bob" \in DOMAIN c.payout
        /\ c.payout["bob"] = 1950

\* C17: nft_payout(token, b) gives the fee account floor(fee.num * b / fee.den),
\* the creator floor(royalty.num * b / royalty.den) and the owner b minus the
\* two; an account that is two or three of these gets the sum in one entry,
\* and no other account is in the payout.
C17_PayoutAmounts ==
    \A token_id \in DOMAIN tokens, b \in Balances :
        LET payout == nft_payout(token_id, b)
            collectible == collectibles[tokens[token_id].gate_id]
            owner_id == tokens[token_id].owner_id
            fee == (mintgate_fee.num * b) \div mintgate_fee.den
            royalty == (collectible.royalty.num * b) \div collectible.royalty.den
        IN  /\ DOMAIN payout = {mintgate_fee_account_id, collectible.creator_id, owner_id}
            /\ \A a \in DOMAIN payout :
                  payout[a] = (IF a = mintgate_fee_account_id THEN fee ELSE 0)
                            + (IF a = collectible.creator_id THEN royalty ELSE 0)
                            + (IF a = owner_id THEN b - fee - royalty ELSE 0)

\* C17 witness: fee 1/3 to mintgate, royalty 15/100 to the creator and a third
\* account as owner: of 40 they get 13, 6 and 21; and a token owned by its
\* creator, who gets 6 + 21 in one entry
C17_Witness ==
    /\ \E t \in DOMAIN tokens :
          LET payout == nft_payout(t, 40) IN
          /\ Cardinality(DOMAIN payout) = 3
          /\ payout[mintgate_fee_account_id] = 13
          /\ payout[collectibles[tokens[t].gate_id].creator_id] = 6
          /\ payout[tokens[t].owner_id] = 21
    /\ \E t \in DOMAIN tokens :
          /\ collectibles[tokens[t].gate_id].creator_id = tokens[t].owner_id
          /\ nft_payout(t, 40)[tokens[t].owner_id] = 27

\* C18: a step of batch_approve by caller c for the account m approves
\* exactly the items whose token, at their turn, exists, is owned by c and
\* holds no approval (a token listed twice is approved at its first turn);
\* these items and no others are sent to m, the others are the errors kept
\* for resolve_batch_approve.  resolve_batch_approve fails iff an item failed,
\* reports as many errors as items failed, and leaves the approvals stored.
C18_BatchApprovePartialSuccess ==
    /\ [][(/\ Len(notifications') = Len(notifications) + 1
            /\ notifications'[Len(notifications')].kind = "batch_on_approve") =>
           LET m == notifications'[Len(notifications')]
               items == m.items
               Approved(i) ==
                   /\ items[i][1] \in DOMAIN tokens
                   /\ tokens[items[i][1]].owner_id = m.owner_id
                   /\ tokens[items[i][1]].approvals = EmptyMap
                   /\ \A j \in 1..(i - 1) : items[j][1] # items[i][1]
               okIdx == {i \in DOMAIN items : Approved(i)}
           IN  /\ DOMAIN tokens' = DOMAIN tokens
               /\ \A t \in DOMAIN tokens :
                     IF \E i \in okIdx : items[i][1] = t
                     THEN \E i \in okIdx :
                             /\ items[i][1] = t
                             /\ tokens'[t] =
                                    [tokens[t] EXCEPT
                                        !.approval_counter = @ + 1,
                                        !.approvals =
                                            Put(EmptyMap, m.to,
                                                [approval_id |->
                                                     tokens[t].approval_counter + 1,
                                                 min_price |-> items[i][2]])]
                     ELSE tokens'[t] = tokens[t]
               /\ Len(m.oks) = Cardinality(okIdx)
               /\ {m.oks[j][1] : j \in DOMAIN m.oks} = {items[i][1] : i \in okIdx}
               /\ \A j \in DOMAIN m.oks : m.oks[j][2].min_price \in Prices
               /\ Len(m.errs) = Len(items) - Cardinality(okIdx)
               /\ {m.errs[j][1] : j \in DOMAIN m.errs}
                      = {items[i][1] : i \in DOMAIN items \ okIdx}]_vars
    /\ [](\A c \in BagToSet(callbacks) :
            (c.kind = "resolve_batch_approve" /\ c.to = MARKET) =>
               /\ (resolve_batch_approve_status(c) # "ok")
                     <=> (Len(c.oks) < Len(c.items))
               /\ resolve_batch_approve_status(c) \in {"ok", "Errors"}
               /\ resolve_batch_approve_count(c) = Len(c.items) - Len(c.oks))
    /\ [][(BagCardinality(callbacks') < BagCardinality(callbacks)) =>
              UNCHANGED nft_vars]_vars

\* C19: nft_approve stores the approval and increments approval_counter in
\* the step that sends the nft_on_approve notification; the step in which that
\* notification fails at an approved account holding no contract changes
\* nothing in the registry (the approval is not rolled back), gives the
\* market no listing and schedules no callback.
C19_ApprovalFireAndForget ==
    /\ [][(/\ Len(notifications') = Len(notifications) + 1
            /\ notifications'[Len(notifications')].kind = "nft_on_approve") =>
           LET m == notifications'[Len(notifications')]
           IN  /\ m.token_id \in DOMAIN tokens
               /\ m.token_id \in DOMAIN tokens'
               /\ m.to \in DOMAIN tokens'[m.token_id].approvals
               /\ tokens'[m.token_id].approvals[m.to].approval_id = m.approval_id
               /\ tokens'[m.token_id].approval_counter = m.approval_id
               /\ m.approval_id = tokens[m.token_id].approval_counter + 1]_vars
    /\ [][\A i \in DOMAIN notifications :
             (/\ Deliverable(i)
              /\ notifications[i].kind = "nft_on_approve"
              /\ notifications[i].to # MARKET
              /\ notifications' = Without(notifications, i)) =>
                /\ UNCHANGED nft_vars
                /\ UNCHANGED market_vars
                /\ UNCHANGED <<callbacks, transfers>>]_vars

\* C19 witness: the notification of an approval given to an account without
\* a contract has failed; the token still holds the approval with its counter
\* incremented and the market lists nothing for it
C19_Witness ==
    \E t \in DOMAIN tokens :
        /\ DOMAIN tokens[t].approvals = {"bob"}
        /\ tokens[t].approvals["bob"].approval_id = 1
        /\ tokens[t].approval_counter = 1
        /\ notifications = <<>>
        /\ TokenKey(NFT, t) \notin DOMAIN tokens_for_sale

\* C20: once the notification of an approval has failed (the token holds the
\* approval, no notification is in flight and the market does not list the
\* token), a further nft_approve of the token by its owner is accepted.
C20_ReapproveAfterFailedNotification ==
    \A t \in DOMAIN tokens :
        (/\ DOMAIN tokens[t].approvals = {"bob"}
         /\ tokens[t].approvals["bob"].approval_id = tokens[t].approval_counter
         /\ notifications = <<>>
         /\ TokenKey(NFT, t) \notin DOMAIN tokens_for_sale) =>
            \A msg \in Prices :
                nft_approve_status(tokens[t].owner_id, t, msg) = "ok"

\* C21: burn_token is accepted only for an existing token and from its
\* owner; the step that burns t removes t from the owner's index and from the
\* minted_tokens of its collectible and sends one nft_on_revoke(t) to every
\* account that held an approval; a failing nft_on_revoke leaves the registry
\* as it is; nft_approve on a token id that is not in the token map fails with
\* TokenIdNotFound; when nothing is in flight the market lists no burned id.
C21_BurnToken ==
    /\ [](\A caller \in Users, t \in TokenIds :
            burn_token_status(caller, t) = "ok" =>
                /\ t \in DOMAIN tokens
                /\ caller = tokens[t].owner_id)
    /\ [](\A caller \in Users, t \in TokenIds, msg \in Prices :
            t \notin DOMAIN tokens =>
                nft_approve_status(caller, t, msg) = "TokenIdNotFound")
    /\ [](\A t \in TokenIds :
            (InFlight = 0 /\ t \notin DOMAIN tokens) =>
                TokenKey(NFT, t) \notin DOMAIN tokens_for_sale)
    /\ [][\A t \in DOMAIN tokens :
             t \notin DOMAIN tokens' =>
                LET token == tokens[t]
                IN  /\ tokens' = Remove(tokens, t)
                    /\ t \notin tokens_by_owner'[token.owner_id]
                    /\ \A g \in DOMAIN collectibles' :
                          \A k \in DOMAIN collectibles'[g].minted_tokens :
                             collectibles'[g].minted_tokens[k] # t
                    /\ Len(notifications') =
                          Len(notifications) + Cardinality(DOMAIN token.approvals)
                    /\ SubSeq(notifications', 1, Len(notifications)) = notifications
                    /\ {notifications'[k] :
                            k \in (Len(notifications) + 1)..Len(notifications')}
                          = {OnRevoke(a, t) : a \in DOMAIN token.approvals}]_vars
    /\ [][\A i \in DOMAIN notifications :
             (/\ Deliverable(i)
              /\ notifications[i].kind = "nft_on_revoke"
              /\ notifications' = Without(notifications, i)
              /\ UNCHANGED market_vars) => UNCHANGED nft_vars]_vars

\* C22: nft_revoke(t, a) is accepted iff the caller owns t and a holds an
\* approval, and fails with TokenIdNotOwnedBy resp. RevokeApprovalFailed
\* otherwise; nft_revoke_all(t) is accepted iff the caller owns t.  A step
\* that takes approvals away from a token and leaves the rest of the token
\* as it is sends one nft_on_revoke(t) to every account that lost its
\* approval, keeps the other approvals and changes nothing else.
C22_Revoke ==
    /\ [](\A caller \in Users, t \in DOMAIN tokens, a \in Approvables :
            get_token_status(t) = "ok" =>
               /\ nft_revoke_status(caller, t, a) =
                     IF caller # tokens[t].owner_id THEN "TokenIdNotOwnedBy"
                     ELSE IF a \notin DOMAIN tokens[t].approvals
                          THEN "RevokeApprovalFailed"
                     ELSE "ok"
               /\ nft_revoke_all_status(caller, t) =
                     IF caller # tokens[t].owner_id THEN "TokenIdNotOwnedBy"
                     ELSE "ok")
    /\ [](\A caller \in Users, t \in TokenIds \ DOMAIN tokens, a \in Approvables :
            /\ nft_revoke_status(caller, t, a) = "TokenIdNotFound"
            /\ nft_revoke_all_status(caller, t) = "TokenIdNotFound")
    /\ [][\A t \in DOMAIN tokens :
             LET before == tokens[t].approvals
                 revoked == DOMAIN before \ DOMAIN tokens'[t].approvals
             IN  (/\ t \in DOMAIN tokens'
                  /\ revoked # {}
                  /\ tokens'[t] = [tokens[t] EXCEPT !.approvals = tokens'[t].approvals]) =>
                    /\ tokens' = [tokens EXCEPT ![t].approvals =
                                     [a \in DOMAIN before \ revoked |-> before[a]]]
                    /\ \/ Cardinality(revoked) = 1
                       \/ revoked = DOMAIN before
                    /\ Len(notifications') = Len(notifications) + Cardinality(revoked)
                    /\ SubSeq(notifications', 1, Len(notifications)) = notifications
                    /\ {notifications'[k] :
                            k \in (Len(notifications) + 1)..Len(notifications')}
                          = {OnRevoke(a, t) : a \in revoked}
                    /\ UNCHANGED <<collectibles, collectibles_by_creator,
                                   tokens_by_owner, config_vars, market_vars,
                                   transfers, callbacks, balance, payments>>]_vars

\* C22 witness: the owner has revoked the market's approval of a token; the
\* token holds no approval and nft_on_revoke is on its way to the market
C22_Witness ==
    \E t \in DOMAIN tokens :
        /\ tokens[t].approval_counter = 1
        /\ tokens[t].approvals = EmptyMap
        /\ \E i \in DOMAIN notifications : notifications[i] = OnRevoke(MARKET, t)
        /\ TokenKey(NFT, t) \in DOMAIN tokens_for_sale

\* C23 (first half): delete_collectible(g) is accepted iff g exists, its
\* minted_tokens is empty and the caller is its creator or the admin, and
\* fails with GateIdNotFound, GateIdHasTokens, NotAuthorized in this order
\* otherwise; the step that deletes g removes it from the collectibles map
\* and from its creator's index and changes nothing else.
C23_DeleteCollectibleGuard ==
    /\ [](\A caller \in Users \cup {ADMIN}, g \in Gates :
            delete_collectible_status(caller, g) =
                IF g \notin DOMAIN collectibles THEN "GateIdNotFound"
                ELSE IF Len(collectibles[g].minted_tokens) > 0 THEN "GateIdHasTokens"
                ELSE IF caller \notin {collectibles[g].creator_id, admin_id}
                     THEN "NotAuthorized"
                ELSE "ok")
    /\ [][\A g \in DOMAIN collectibles :
             g \notin DOMAIN collectibles' =>
                /\ collectibles' = Remove(collectibles, g)
                /\ collectibles[g].minted_tokens = <<>>
                /\ collectibles_by_creator' =
                      [collectibles_by_creator EXCEPT
                          ![collectibles[g].creator_id] = @ \ {g}]
                /\ \A c \in DOMAIN collectibles_by_creator' :
                      g \notin collectibles_by_creator'[c]
                /\ UNCHANGED <<tokens, tokens_by_owner, config_vars, market_vars,
                               host_vars>>]_vars

\* C23: the first half, and a collectible that had tokens claimed and has no
\* token left in the token map can be deleted by its creator.
C23_DeleteCollectible ==
    /\ C23_DeleteCollectibleGuard
    /\ [](\A g \in DOMAIN collectibles :
            (/\ claims[g] > 0
             /\ \A t \in DOMAIN tokens : tokens[t].gate_id # g) =>
                delete_collectible_status(collectibles[g].creator_id, g) = "ok")

\* C24: make_payouts is rejected for every predecessor but the market and
\* resolve_batch_approve for every predecessor but the NFT contract; the
\* market's balance decreases, and a native transfer is issued, only in a step
\* that consumes one of the market's pending callbacks and issues the
\* transfers of that callback's payout, leaving the listings and the registry
\* as they were; an account is credited only by one of these transfers.
C24_CallbacksAreSelfOnly ==
    /\ [](\A p \in Accounts :
            /\ p # MARKET => private_status(MARKET, p) = "MethodIsPrivate"
            /\ p # NFT => private_status(NFT, p) = "MethodIsPrivate")
    /\ [][(\/ balance'[MARKET] < balance[MARKET]
           \/ BagCardinality(payments') > BagCardinality(payments)) =>
             \E c \in BagToSet(callbacks) :
                /\ callbacks' = callbacks (-) SetToBag({c})
                /\ c.ok
                /\ balance' = pay(c.payout)
                /\ payments' = pay_receipts(c.payout)
                /\ UNCHANGED <<nft_vars, market_vars>>]_vars
    /\ [][\A a \in Users \cup {MINTGATE} :
             balance'[a] > balance[a] =>
                \E p \in BagToSet(payments) :
                   /\ p.receiver_id = a
                   /\ payments' = payments (-) SetToBag({p})
                   /\ balance'[a] = balance[a] + p.amount
                   /\ callbacks' = callbacks]_vars

\* C24 witness: a make_payouts callback of the market with a payout is
\* pending and the market holds the deposit an outsider could ask for
C24_Witness ==
    \E c \in BagToSet(callbacks) :
        /\ c.ok
        /\ DOMAIN c.payout # {}
        /\ balance[MARKET] > 0
        /\ \A p \in Users : private_status(MARKET, p) # "ok"

\* C25: every admitted buy_token has exactly one of: its nft_transfer_payout
\* pending, its make_payouts callback pending with the result of that call, or
\* its make_payouts executed; make_payouts runs only by consuming such a
\* callback, and on a successful result it issues one transfer receipt for
\* every entry of the payout, carrying the amount of that entry, takes their
\* sum from the market and credits nobody in that step; on a failed result it
\* issues none; every admitted buy_token is eventually followed by its
\* make_payouts.
C25_OneMakePayoutsPerBuy ==
    /\ [](\A k \in Keys :
            PendingIn(transfers, k) + PendingIn(callbacks, k) + settled[k] = sold[k])
    /\ [][\A k \in Keys :
             settled'[k] # settled[k] =>
                \E c \in BagToSet(callbacks) :
                   /\ TokenKey(c.nft_id, c.token_id) = k
                   /\ callbacks' = callbacks (-) SetToBag({c})
                   /\ settled' = [settled EXCEPT ![k] = @ + 1]
                   /\ transfers' = transfers
                   /\ payments' =
                         IF c.ok
                         THEN payments (+) SetToBag({Transfer(a, c.payout[a]) :
                                                        a \in DOMAIN c.payout})
                         ELSE payments
                   /\ \A a \in Accounts \ {MARKET} : balance'[a] = balance[a]
                   /\ balance'[MARKET] = balance[MARKET] -
                         (IF c.ok THEN SumOf(c.payout, DOMAIN c.payout) ELSE 0)]_vars
    /\ [][BagCardinality(callbacks') < BagCardinality(callbacks) =>
             \E k \in Keys : settled'[k] = settled[k] + 1]_vars
    /\ []<>(\A k \in Keys : settled[k] = sold[k])

\* C25 witness: a token was bought once, make_payouts ran once on the
\* successful result and the transfers to its two payees are in flight
C25_Witness ==
    \E k \in Keys :
        /\ sold[k] = 1
        /\ settled[k] = 1
        /\ failed[k] = 0
        /\ callbacks = EmptyBag
        /\ BagCardinality(payments) = 2
        /\ \E p \in BagToSet(payments) : p.receiver_id = MINTGATE /\ p.amount > 0
        /\ \E p \in BagToSet(payments) : p.receiver_id = "bob" /\ p.amount > 0

\* C26: nft_on_approve fails with MsgFormatMinPriceMissing iff msg is not a
\* JSON object or has no min_price.  A step that creates or changes the
\* listing under the key (R, t) stores R, t and the fields of the call in it,
\* leaves every other listing, the same token id of another registry
\* included, as it was, and adds the key to the indexes of R, of the owner
\* and of the gate and the creator of the message.
C26_OnApproveKeyedByRegistry ==
    /\ [](\A msg \in MarketMsgs :
            nft_on_approve_status(msg) =
                IF msg.json /\ msg.has_min_price THEN "ok"
                ELSE "MsgFormatMinPriceMissing")
    /\ [][\A k \in DOMAIN tokens_for_sale' :
             (k \notin DOMAIN tokens_for_sale \/ tokens_for_sale'[k] # tokens_for_sale[k]) =>
                LET sale == tokens_for_sale'[k]
                IN  /\ sale.nft_id = k[1]
                    /\ sale.token_id = k[2]
                    /\ \E owner_id \in Users, msg \in MarketMsgs :
                          /\ nft_on_approve_status(msg) = "ok"
                          /\ sale = [nft_id |-> k[1], token_id |-> k[2],
                                     owner_id |-> owner_id, approval_id |-> 1,
                                     min_price |-> msg.min_price,
                                     gate_id |-> msg.gate_id,
                                     creator_id |-> msg.creator_id]
                    /\ DOMAIN tokens_for_sale' = DOMAIN tokens_for_sale \cup {k}
                    /\ \A l \in DOMAIN tokens_for_sale \ {k} :
                          tokens_for_sale'[l] = tokens_for_sale[l]
                    /\ tokens_by_nft_id' =
                          [tokens_by_nft_id EXCEPT ![k[1]] = @ \cup {k[2]}]
                    /\ tokens_by_owner_id' =
                          [tokens_by_owner_id EXCEPT ![sale.owner_id] = @ \cup {k}]
                    /\ sale.gate_id # NONE => k \in tokens_by_gate_id'[sale.gate_id]
                    /\ sale.creator_id # NONE =>
                          k \in tokens_by_creator_id'[sale.creator_id]]_vars

\* C26 witness: two registries have listed their token 0, with different
\* owners and prices
C26_Witness ==
    /\ <<NFT, 0>> \in DOMAIN tokens_for_sale
    /\ <<"alice", 0>> \in DOMAIN tokens_for_sale
    /\ tokens_for_sale[<<NFT, 0>>].owner_id # tokens_for_sale[<<"alice", 0>>].owner_id
    /\ tokens_for_sale[<<NFT, 0>>].min_price # tokens_for_sale[<<"alice", 0>>].min_price
    /\ 0 \in tokens_by_nft_id[NFT] \cap tokens_by_nft_id["alice"]

\* C27 (status and listings): nft_on_revoke(t) called by R fails with
\* TokenKeyNotFound when the market has no listing (R, t) and is accepted
\* when it has one; the step that removes the listing (R, t) removes no other
\* listing and touches the by-registry index of R only.
C27_OnRevokeRemovesListing ==
    /\ [](\A nft_id \in Registries, t \in TokenIds :
            nft_on_revoke_status(nft_id, t) =
                IF <<nft_id, t>> \in DOMAIN tokens_for_sale THEN "ok"
                ELSE "TokenKeyNotFound")
    /\ [][\A k \in DOMAIN tokens_for_sale :
             k \notin DOMAIN tokens_for_sale' =>
                /\ tokens_for_sale' = Remove(tokens_for_sale, k)
                /\ tokens_by_nft_id' =
                      [tokens_by_nft_id EXCEPT ![k[1]] = @ \ {k[2]}]
                /\ k \notin tokens_by_owner_id'[tokens_for_sale[k].owner_id]]_vars

\* C27: the above, and after the step that removes the listing (R, t) no
\* index of the market holds the key (R, t).
C27_OnRevoke ==
    /\ C27_OnRevokeRemovesListing
    /\ [][\A k \in DOMAIN tokens_for_sale :
             k \notin DOMAIN tokens_for_sale' =>
                /\ \A a \in Accounts : k \notin tokens_by_owner_id'[a]
                /\ \A g \in Gates : k \notin tokens_by_gate_id'[g]
                /\ \A a \in Accounts : k \notin tokens_by_creator_id'[a]]_vars

\* the pairs (num, den) given to Fraction::new and Fraction::check
FractionInputs == {Frac(n, d) : n \in 0..MaxFraction, d \in 0..MaxFraction}

\* Fraction::new and Fraction::check accept (num, den) iff den # 0 and
\* num <= den and report the two errors as the documentation says
C28_CheckAcceptsValidOnly ==
    \A f \in FractionInputs \cup Fractions :
        /\ (check(f) = "ok") <=> (f.den # 0 /\ f.num <= f.den)
        /\ (new_status(f.num, f.den) = "ok") <=> (f.den # 0 /\ f.num <= f.den)
        /\ f.den = 0 =>
              /\ check(f) = "ZeroDenominatorFraction"
              /\ new_status(f.num, f.den) = "DenominatorIsZero"
        /\ (f.num > f.den /\ f.den > 0) =>
              /\ check(f) = "FractionGreaterThanOne"
              /\ new_status(f.num, f.den) = "FractionGreaterThanOne"

\* init is accepted with valid fractions only
C28_InitAcceptsValidOnly ==
    \A min \in Fractions, max \in Fractions, fee \in Fractions :
        init_status(min, max, fee) = "ok" =>
           \A f \in {min, max, fee} : f.den # 0 /\ f.num <= f.den

\* C28: Fraction::new and Fraction::check accept (num, den) iff den # 0 and
\* num <= den, report the zero denominator whenever den = 0 and the fraction
\* greater than one when num > den > 0; init and create_collectible are
\* accepted only with valid fractions, so every fraction stored is valid.
C28_FractionsAreValidated ==
    /\ C28_CheckAcceptsValidOnly
    /\ C28_InitAcceptsValidOnly
    /\ \A g \in Gates, royalty \in Fractions :
          create_collectible_status(g, 14, 1, royalty) = "ok" =>
             (royalty.den # 0 /\ royalty.num <= royalty.den)
    /\ \A f \in {min_royalty, max_royalty, mintgate_fee}
               \cup {collectibles[g].royalty : g \in DOMAIN collectibles} :
          f.den # 0 /\ f.num <= f.den

\* C28 witness: a collectible with royalty 1/2 is stored, and
\* create_collectible rejects the royalties 2/1 and 1/0 by their validation
C28_Witness ==
    /\ \E g \in DOMAIN collectibles : collectibles[g].royalty = Frac(1, 2)
    /\ \E g \in Gates \ DOMAIN collectibles :
          /\ create_collectible_status(g, 14, 1, Frac(2, 1)) = "FractionGreaterThanOne"
          /\ create_collectible_status(g, 14, 1, Frac(1, 0)) = "ZeroDenominatorFraction"

\* the amounts Fraction::mult is applied to: every balance of the payout
\* view and the amount of the unit tests
Amounts == (0..MaxBalance) \cup {1000000}

\* bit widths of num (u32), of value (Balance = u128) and of the U256 product
NUM_BITS == 32
BALANCE_BITS == 128
U256_BITS == 256

\* r is floor(f.num * a / f.den), lies in 0..a, is 0 for a numerator of 0
\* and a for a fraction equal to 1
IsFloorOf(f, a, r) ==
    /\ r * f.den <= f.num * a
    /\ f.num * a < (r + 1) * f.den
    /\ 0 <= r /\ r <= a
    /\ f.num = 0 => r = 0
    /\ f.num = f.den => r = a

\* the same for the wide operands, in digit strings
IsFloorOfWide(f, wide, r) ==
    LET product == Strip(MulDigits(wide, f.num, 0))
    IN  /\ ~LessDigits(product, Strip(MulDigits(r, f.den, 0)))
        /\ LessDigits(product, Strip(MulDigits(Strip(AddDigits(r, <<1>>, 0)), f.den, 0)))
        /\ ~LessDigits(Strip(wide), r)
        /\ f.num = 0 => r = <<>>
        /\ f.num = f.den => r = Strip(wide)

\* mult on every valid fraction of the model and every amount
C29_MultOnAmounts ==
    \A f \in {h \in FractionInputs : check(h) = "ok"} \cup ValidFractions,
       a \in Amounts :
        IsFloorOf(f, a, mult(f, a))

\* mult on u128::MAX and on 10^21
C29_MultOnWideOperands ==
    /\ NUM_BITS + BALANCE_BITS <= U256_BITS
    /\ \A f \in ComparedFractions :
          /\ IsFloorOfWide(f, U128_MAX, multWide(f, U128_MAX))
          /\ IsFloorOfWide(f, BN, multWide(f, BN))

\* C29: for every valid fraction f = num/den and every amount a, f.mult(a) is
\* floor(num * a / den), the product of a 32-bit and a 128-bit operand fits
\* the 256-bit intermediate, 0 <= f.mult(a) <= a, a numerator of 0 gives 0
\* and num = den gives a; so it is for the fractions the contract stores.
C29_MultIsFloor ==
    /\ C29_MultOnAmounts
    /\ C29_MultOnWideOperands
    /\ \A f \in {mintgate_fee} \cup {collectibles[g].royalty : g \in DOMAIN collectibles},
          a \in Amounts :
          IsFloorOf(f, a, mult(f, a))

\* C29 witness: a token of a collectible with royalty 2/3 under a fee of
\* 25/1000; of a balance of 40 the royalty is 26 and the fee 1, both rounded down
C29_Witness ==
    /\ mintgate_fee = Frac(25, 1000)
    /\ \E t \in DOMAIN tokens :
          LET c == collectibles[tokens[t].gate_id]
          IN  /\ c.royalty = Frac(2, 3)
              /\ mult(c.royalty, 40) = 26
              /\ mult(mintgate_fee, 40) = 1
              /\ nft_payout(t, 40)[c.creator_id] >= 26

\* n1/d1 = n2/d2 as rationals, by cross-multiplication
EqualExact(f, g) == f.num * g.den = g.num * f.den

\* eq and cmp on every pair of the fractions compared
C30_ComparisonIsExact ==
    \A f \in ComparedFractions, g \in ComparedFractions :
        /\ eq(f, g) <=> EqualExact(f, g)
        /\ cmpWide(f, g) = "Equal" <=> EqualExact(f, g)
        /\ cmpWide(f, g) = "Less" <=> LessExact(f, g)
        /\ cmpWide(f, g) = "Greater" <=> LessExact(g, f)

\* C30: Fraction equality and ordering agree with exact rational comparison:
\* n1/d1 equals n2/d2 iff n1*d2 = n2*d1 and is less iff n1*d2 < n2*d1, so the
\* unreduced 1/2, 30/60 and 50/100 are equal and two different rationals are
\* never equal; so it is for the royalties the contract compared and stored.
C30_FractionOrderIsExact ==
    /\ C30_ComparisonIsExact
    /\ eq(Frac(1, 2), Frac(50, 100)) /\ eq(Frac(1, 2), Frac(30, 60))
    /\ ~eq(Frac(MaxDen - 1, MaxDen), Frac(MaxDen, MaxDen + 1))
    /\ \A g \in DOMAIN collectibles :
          \A bound \in {min_royalty, max_royalty} :
             LET royalty == collectibles[g].royalty
             IN  /\ cmp(royalty, bound) = "Less" <=> LessExact(royalty, bound)
                 /\ cmp(royalty, bound) = "Equal" <=> EqualExact(royalty, bound)

\* C30 witness: create_collectible stored the royalty 15/100 after comparing
\* it with the minimum 5/100 and the maximum 30/100
C30_Witness ==
    /\ min_royalty = Frac(5, 100) /\ max_royalty = Frac(30, 100)
    /\ \E g \in DOMAIN collectibles :
          /\ collectibles[g].royalty = Frac(15, 100)
          /\ cmp(collectibles[g].royalty, min_royalty) = "Greater"
          /\ cmp(collectibles[g].royalty, max_royalty) = "Less"

\* C31: whenever a buy_token call is admitted, the nft_transfer_payout it
\* dispatches succeeds at the registry: no promise handed to make_payouts has
\* failed and make_payouts has never run on a failed promise.
C31_TransferPayoutSucceeds ==
    /\ \A c \in BagToSet(callbacks) : c.ok
    /\ \A k \in Keys : failed[k] = 0

\* the receipts of make_payouts whose promise has failed
FailedCallbacks(B) ==
    LET about == {c \in BagToSet(B) : ~c.ok}
    IN  SumOf([c \in about |-> CopiesIn(c, B)], about)

\* C32: when the nft_transfer_payout of an admitted buy_token fails, the step
\* of the registry leaves every token, the listings and the balances as they
\* were; the make_payouts that follows transfers nothing, refunds nothing and
\* does not insert the listing again: the listing stays removed for as long
\* as no later nft_on_approve lists the token.
C32_FailedTransferPayout ==
    /\ [](\A k \in Keys :
            (failed[k] > 0 /\ bought[k]) => k \notin DOMAIN tokens_for_sale)
    /\ [][FailedCallbacks(callbacks') > FailedCallbacks(callbacks)
             => /\ tokens' = tokens /\ tokens_by_owner' = tokens_by_owner
                /\ market_vars' = market_vars
                /\ balance' = balance
                /\ payments' = payments]_vars
    /\ [][\A k \in Keys : failed'[k] > failed[k]
             => /\ market_vars' = market_vars
                /\ balance' = balance
                /\ payments' = payments
                /\ tokens' = tokens]_vars

\* C32 witness: make_payouts has run on the failed promise of a sale of a
\* stored token; the listing is gone and the market holds the deposit
C32_Witness ==
    \E k \in Keys :
        /\ sold[k] = 1 /\ failed[k] = 1
        /\ k \notin DOMAIN tokens_for_sale
        /\ k[2] \in DOMAIN tokens
        /\ balance[MARKET] >= 7
        /\ payments = EmptyBag

\* the listing of key k caches an approval_id other than the one the registry
\* stores for the market on that token
StaleGrant(k) ==
    /\ k \in DOMAIN tokens_for_sale
    /\ k[1] = NFT /\ k[2] \in DOMAIN tokens
    /\ MARKET \in DOMAIN tokens[k[2]].approvals
    /\ tokens[k[2]].approvals[MARKET].approval_id # tokens_for_sale[k].approval_id

\* C33: a buy_token admitted on a listing that caches a stale approval_id does
\* not transfer the token: the registry rejects the nft_transfer_payout that
\* the buy dispatches.
C33_StaleGrantDoesNotSettle ==
    [][\A k \in Keys :
          (sold'[k] > sold[k] /\ StaleGrant(k))
             => \A t \in BagToSet(transfers') :
                   (CopiesIn(t, transfers') > CopiesIn(t, transfers))
                      => nft_transfer_payout_status(MARKET, t.receiver_id, t.token_id,
                                                    NO_APPROVAL_ID, t.balance) # "ok"]_vars

\* C34: the market's indexes agree with its listings: each by-owner, by-gate
\* and by-creator set holds exactly the keys of the listings with that owner,
\* gate or creator, so no get_tokens_by_* view fails with "Token not found".
C34_MarketIndexesInLockStep ==
    /\ \A owner_id \in DOMAIN tokens_by_owner_id :
          /\ tokens_by_owner_id[owner_id] =
                {k \in DOMAIN tokens_for_sale : tokens_for_sale[k].owner_id = owner_id}
          /\ get_tokens_by_status(tokens_by_owner_id[owner_id]) = "ok"
    /\ \A gate_id \in DOMAIN tokens_by_gate_id :
          /\ tokens_by_gate_id[gate_id] =
                {k \in DOMAIN tokens_for_sale : tokens_for_sale[k].gate_id = gate_id}
          /\ get_tokens_by_status(tokens_by_gate_id[gate_id]) = "ok"
    /\ \A creator_id \in DOMAIN tokens_by_creator_id :
          /\ tokens_by_creator_id[creator_id] =
                {k \in DOMAIN tokens_for_sale : tokens_for_sale[k].creator_id = creator_id}
          /\ get_tokens_by_status(tokens_by_creator_id[creator_id]) = "ok"

\* C35: the registry's indexes agree with its primary maps: tokens_by_owner[a]
\* is the set of the stored tokens owned by a, collectibles_by_creator[a] the
\* set of the stored collectibles created by a.
C35_RegistryIndexesInLockStep ==
    /\ \A a \in DOMAIN tokens_by_owner :
          tokens_by_owner[a] = {t \in DOMAIN tokens : tokens[t].owner_id = a}
    /\ \A a \in DOMAIN collectibles_by_creator :
          collectibles_by_creator[a] =
             {g \in DOMAIN collectibles : collectibles[g].creator_id = a}

\* C36: each collectible's minted_tokens holds, without duplicates, exactly
\* the ids of the stored tokens of that collectible.
C36_MintedTokensAreTheStoredTokens ==
    \A g \in DOMAIN collectibles :
        LET minted == collectibles[g].minted_tokens
        IN  /\ \A i \in DOMAIN minted, j \in DOMAIN minted :
                  minted[i] = minted[j] => i = j
            /\ {minted[i] : i \in DOMAIN minted} =
                  {t \in DOMAIN tokens : tokens[t].gate_id = g}

\* C37: the gate_id of every stored token is the key of a stored collectible,
\* so no call on a stored token fails for a missing collectible; and
\* delete_collectible is rejected, and removes nothing, while a token of the
\* collectible is stored.
C37_TokensReferToCollectibles ==
    /\ [](\A t \in DOMAIN tokens :
             /\ tokens[t].gate_id \in DOMAIN collectibles
             /\ get_token_status(t) = "ok"
             /\ \A caller \in Users \cup {ADMIN} :
                   delete_collectible_status(caller, tokens[t].gate_id) # "ok")
    /\ [][\A g \in DOMAIN collectibles :
             g \notin DOMAIN collectibles'
                => \A t \in DOMAIN tokens : tokens[t].gate_id # g]_vars

\* C37 witness: a token of g1 is stored, so its creator's delete_collectible
\* is rejected, while another collectible has been created and deleted
C37_Witness ==
    /\ \E t \in DOMAIN tokens :
          /\ tokens[t].gate_id = "g1"
          /\ delete_collectible_status(collectibles["g1"].creator_id, "g1")
                = "GateIdHasTokens"
    /\ "g2" \notin DOMAIN collectibles /\ supplied["g2"] > 0

\* the step executes the receipt t of nft_transfer_payout and the call succeeds
Transferred(t) ==
    /\ CopiesIn(t, transfers') < CopiesIn(t, transfers)
    /\ FailedCallbacks(callbacks') = FailedCallbacks(callbacks)
    /\ BagCardinality(callbacks') > BagCardinality(callbacks)

\* C38: whenever a sale through the market transfers a token, the balance
\* split among the payees is at least the min_price of the approval that the
\* registry holds for the market on that token when the transfer is executed.
C38_NoSaleBelowAskingPrice ==
    [][\A t \in BagToSet(transfers) :
          Transferred(t)
             => /\ MARKET \in DOMAIN tokens[t.token_id].approvals
                /\ t.balance >= tokens[t.token_id].approvals[MARKET].min_price]_vars

\* C39: the market never pays out more than it was paid: the transfers issued
\* by make_payouts for a sale do not exceed the deposit of its buy_token, so at
\* every moment what the market has paid out in all is no more than the
\* deposits it has received, whatever the listing's contract returns.
C39_PaysNoMoreThanPaid == balance[MARKET] >= 0

====
